---- MODULE Spec2Model ----
(***************************************************************************)
(* Sales ingestion (app/data/routes.py) and the metrics engine             *)
(* (app/services/metrics.py) of alyal_data.                                *)
(*                                                                         *)
(* Text is modelled as a sequence of one-character strings, so that the    *)
(* normalisers and parsers work character by character as the Python code  *)
(* does.  Money is kept in cents (the Sale columns are Numeric(12, 2)),     *)
(* percentages in hundredths of a percent where the code rounds to two     *)
(* decimals.                                                               *)
(***************************************************************************)
EXTENDS Integers, Sequences, FiniteSets, Bags, TLC

VARIABLES sales, op, args, ret

vars == <<sales, op, args, ret>>

\* Python's None and Optional values: None is the empty sequence, a present
\* value x is the one-element sequence <<x>>
None == <<>>
Some(x) == <<x>>

\* ------------------------------------------------------------------------
\* Bounds of the model
\* ------------------------------------------------------------------------
\* largest number of Sale rows the table holds
MaxSales == 3

\* ------------------------------------------------------------------------
\* Generic helpers
\* ------------------------------------------------------------------------
Abs(x) == IF x < 0 THEN -x ELSE x

\* the exact quotient n / d of a Decimal division, as a fraction with den > 0
Rat(n, d) == IF d < 0 THEN [num |-> -n, den |-> -d] ELSE [num |-> n, den |-> d]

\* nearest integer to n / d (d > 0), ties to the even neighbour
\* (Decimal.quantize with ROUND_HALF_EVEN, round() on a float)
RoundHalfEven(n, d) ==
  LET q == n \div d
      r == n % d
  IN  IF 2 * r < d THEN q
      ELSE IF 2 * r > d THEN q + 1
      ELSE IF q % 2 = 0 THEN q ELSE q + 1

RECURSIVE SumSeq(_)
SumSeq(s) == IF s = <<>> THEN 0 ELSE Head(s) + SumSeq(Tail(s))

RECURSIVE SetToSeq(_)
\* one enumeration of a finite set
SetToSeq(S) ==
  IF S = {} THEN <<>>
  ELSE LET x == CHOOSE y \in S : TRUE IN <<x>> \o SetToSeq(S \ {x})

\* every enumeration of a finite set (an unordered query result)
Perms(S) ==
  {p \in [1..Cardinality(S) -> S] : \A i, j \in 1..Cardinality(S) : i # j => p[i] # p[j]}

Range(s) == {s[i] : i \in 1..Len(s)}

\* ------------------------------------------------------------------------
\* Character-level string operations (str methods used by the code)
\* ------------------------------------------------------------------------
Digits == {"0","1","2","3","4","5","6","7","8","9"}
LowerLetters == {"a","b","c","d","e","f","g","h","i","j","k","l","m",
                 "n","o","p","q","r","s","t","u","v","w","x","y","z"}
Whitespace == {" ", "\t", "\n", "\r", "nbsp"}

DigitVal(c) ==
  CASE c = "0" -> 0 [] c = "1" -> 1 [] c = "2" -> 2 [] c = "3" -> 3 [] c = "4" -> 4
    [] c = "5" -> 5 [] c = "6" -> 6 [] c = "7" -> 7 [] c = "8" -> 8 [] c = "9" -> 9

\* unicodedata.normalize('NFKD', .) followed by dropping combining marks
Unaccent(c) ==
  CASE c \in {"á","à","â","ã","ä"} -> "a"
    [] c \in {"Á","À","Â","Ã","Ä"} -> "A"
    [] c \in {"é","ê","è"} -> "e"
    [] c \in {"É","Ê","È"} -> "E"
    [] c \in {"í","ì"} -> "i"
    [] c \in {"Í","Ì"} -> "I"
    [] c \in {"ó","ô","õ","ò"} -> "o"
    [] c \in {"Ó","Ô","Õ","Ò"} -> "O"
    [] c \in {"ú","ü","ù"} -> "u"
    [] c \in {"Ú","Ü","Ù"} -> "U"
    [] c = "ç" -> "c"
    [] c = "Ç" -> "C"
    [] OTHER -> c

\* str.lower on one character
LowerCh(c) ==
  CASE c = "A" -> "a" [] c = "B" -> "b" [] c = "C" -> "c" [] c = "D" -> "d"
    [] c = "E" -> "e" [] c = "F" -> "f" [] c = "G" -> "g" [] c = "H" -> "h"
    [] c = "I" -> "i" [] c = "J" -> "j" [] c = "K" -> "k" [] c = "L" -> "l"
    [] c = "M" -> "m" [] c = "N" -> "n" [] c = "O" -> "o" [] c = "P" -> "p"
    [] c = "Q" -> "q" [] c = "R" -> "r" [] c = "S" -> "s" [] c = "T" -> "t"
    [] c = "U" -> "u" [] c = "V" -> "v" [] c = "W" -> "w" [] c = "X" -> "x"
    [] c = "Y" -> "y" [] c = "Z" -> "z"
    [] c = "Á" -> "á" [] c = "É" -> "é" [] c = "Í" -> "í" [] c = "Ó" -> "ó"
    [] c = "Ú" -> "ú" [] c = "Ã" -> "ã" [] c = "Õ" -> "õ" [] c = "Ç" -> "ç"
    [] c = "Â" -> "â" [] c = "Ê" -> "ê" [] c = "Ô" -> "ô"
    [] OTHER -> c

StrUnaccent(s) == [i \in 1..Len(s) |-> Unaccent(s[i])]
StrLower(s) == [i \in 1..Len(s) |-> LowerCh(s[i])]

RECURSIVE LStripSet(_, _)
LStripSet(s, cs) ==
  IF s # <<>> /\ Head(s) \in cs THEN LStripSet(Tail(s), cs) ELSE s

RECURSIVE RStripSet(_, _)
RStripSet(s, cs) ==
  IF s # <<>> /\ s[Len(s)] \in cs THEN RStripSet(SubSeq(s, 1, Len(s) - 1), cs) ELSE s

\* str.strip() and str.strip(chars)
StrStrip(s) == RStripSet(LStripSet(s, Whitespace), Whitespace)
StrStripCh(s, c) == RStripSet(LStripSet(s, {c}), {c})

\* str.replace(a, b) for a single character a and a replacement string b
RECURSIVE ReplaceCh(_, _, _)
ReplaceCh(s, a, b) ==
  IF s = <<>> THEN <<>>
  ELSE (IF Head(s) = a THEN b ELSE <<Head(s)>>) \o ReplaceCh(Tail(s), a, b)

\* str.replace("R$", "")
RECURSIVE RemoveCurrency(_)
RemoveCurrency(s) ==
  IF Len(s) < 2 THEN s
  ELSE IF s[1] = "R" /\ s[2] = "$" THEN RemoveCurrency(SubSeq(s, 3, Len(s)))
  ELSE <<Head(s)>> \o RemoveCurrency(Tail(s))

\* re.sub(r"_+", "_", s)
RECURSIVE CollapseUnderscores(_)
CollapseUnderscores(s) ==
  IF Len(s) < 2 THEN s
  ELSE IF s[1] = "_" /\ s[2] = "_" THEN CollapseUnderscores(Tail(s))
  ELSE <<Head(s)>> \o CollapseUnderscores(Tail(s))

\* re.sub(r"[^a-z0-9]+", "_", s)
NonAlnumToUnderscore(s) ==
  CollapseUnderscores([i \in 1..Len(s) |->
      IF s[i] \in LowerLetters \cup Digits THEN s[i] ELSE "_"])

\* str.rfind(c): the last index of c (1-based), 0 when absent
RFind(s, c) ==
  IF \E i \in 1..Len(s) : s[i] = c
  THEN CHOOSE i \in 1..Len(s) : s[i] = c /\ \A j \in (i + 1)..Len(s) : s[j] # c
  ELSE 0

\* str.split(c)
RECURSIVE Split(_, _)
Split(s, c) ==
  IF \A i \in 1..Len(s) : s[i] # c THEN <<s>>
  ELSE LET k == CHOOSE i \in 1..Len(s) : s[i] = c /\ \A j \in 1..(i - 1) : s[j] # c
       IN  <<SubSeq(s, 1, k - 1)>> \o Split(SubSeq(s, k + 1, Len(s)), c)

AllDigits(s) == s # <<>> /\ \A i \in 1..Len(s) : s[i] \in Digits

RECURSIVE DigitsToInt(_)
DigitsToInt(s) ==
  IF s = <<>> THEN 0 ELSE 10 * DigitsToInt(SubSeq(s, 1, Len(s) - 1)) + DigitVal(s[Len(s)])

RECURSIVE Pow10(_)
Pow10(n) == IF n = 0 THEN 1 ELSE 10 * Pow10(n - 1)

\* ------------------------------------------------------------------------
\* Dates (datetime.date): records [y, m, d]
\* ------------------------------------------------------------------------
IsLeap(y) == (y % 4 = 0 /\ y % 100 # 0) \/ y % 400 = 0

DaysInMonth(y, m) ==
  CASE m \in {1, 3, 5, 7, 8, 10, 12} -> 31
    [] m \in {4, 6, 9, 11} -> 30
    [] OTHER -> IF IsLeap(y) THEN 29 ELSE 28

RECURSIVE DaysBeforeMonth(_, _)
DaysBeforeMonth(y, m) == IF m = 1 THEN 0 ELSE DaysBeforeMonth(y, m - 1) + DaysInMonth(y, m - 1)

\* date.toordinal()
ToOrdinal(dt) ==
  LET y1 == dt.y - 1
  IN  365 * y1 + (y1 \div 4) - (y1 \div 100) + (y1 \div 400) + DaysBeforeMonth(dt.y, dt.m) + dt.d

DateLE(a, b) == ToOrdinal(a) <= ToOrdinal(b)
DateLT(a, b) == ToOrdinal(a) < ToOrdinal(b)

\* date.isoformat() orders as the dates do; the label of a date is the date
\* _month_key(value)
_month_key(value) == <<value.y, value.m>>

\* datetime.strptime(value, fmt).date() for the three formats of parse_date;
\* sep is the separator of the format, ymd tells whether the year comes first
Strptime(value, sep, ymd) ==
  LET parts == Split(value, sep)
      ys == IF ymd THEN parts[1] ELSE parts[3]
      ms == parts[2]
      ds == IF ymd THEN parts[3] ELSE parts[1]
      wellFormed == /\ Len(parts) = 3
                    /\ AllDigits(ys) /\ Len(ys) = 4
                    /\ AllDigits(ms) /\ Len(ms) \in {1, 2}
                    /\ AllDigits(ds) /\ Len(ds) \in {1, 2}
  IN  IF ~wellFormed THEN [ok |-> FALSE]
      ELSE LET y == DigitsToInt(ys)
               m == DigitsToInt(ms)
               d == DigitsToInt(ds)
           IN  IF y >= 1 /\ m \in 1..12 /\ d >= 1 /\ d <= DaysInMonth(y, m)
               THEN [ok |-> TRUE, date |-> [y |-> y, m |-> m, d |-> d]]
               ELSE [ok |-> FALSE]

\* parse_date(value): ValueError is [ok |-> FALSE]
parse_date(value) ==
  IF value = <<>> THEN [ok |-> FALSE, msg |-> "data_venda vazia"]
  ELSE LET v == StrStrip(value)
           iso == Strptime(v, "-", TRUE)
           br  == Strptime(v, "/", FALSE)
           dmy == Strptime(v, "-", FALSE)
       IN  IF iso.ok THEN [ok |-> TRUE, date |-> iso.date]
           ELSE IF br.ok THEN [ok |-> TRUE, date |-> br.date]
           ELSE IF dmy.ok THEN [ok |-> TRUE, date |-> dmy.date]
           ELSE [ok |-> FALSE, msg |-> "Formato de data invalido"]

\* ------------------------------------------------------------------------
\* Decimals: [ok, coef, scale] stands for coef * 10^-scale
\* ------------------------------------------------------------------------
\* Decimal(text) for text over digits, sign, '.' and other characters
\* (InvalidOperation is [ok |-> FALSE]); exponents, NaN and Infinity are not
\* in the alphabet of the inputs
DecimalOf(text) ==
  LET signed == text # <<>> /\ Head(text) \in {"-", "+"}
      body == IF signed THEN Tail(text) ELSE text
      parts == Split(body, ".")
      ip == parts[1]
      fp == IF Len(parts) = 2 THEN parts[2] ELSE <<>>
      wellFormed == /\ Len(parts) \in {1, 2}
                    /\ \A i \in 1..Len(ip) : ip[i] \in Digits
                    /\ \A i \in 1..Len(fp) : fp[i] \in Digits
                    /\ Len(ip) + Len(fp) >= 1
  IN  IF ~wellFormed THEN [ok |-> FALSE]
      ELSE LET mag == DigitsToInt(ip \o fp)
           IN  [ok |-> TRUE,
                coef |-> IF signed /\ Head(text) = "-" THEN -mag ELSE mag,
                scale |-> Len(fp)]

\* the value of a Decimal in a Numeric(12, 2) column, in cents
ToCents(dec) ==
  IF dec.scale <= 2 THEN dec.coef * Pow10(2 - dec.scale)
  ELSE RoundHalfEven(dec.coef, Pow10(dec.scale - 2))

\* parse_decimal_ptbr_en(value), value a str ("nbsp" is U+00A0)
parse_decimal_ptbr_en(value) ==
  LET cleaned == ReplaceCh(ReplaceCh(RemoveCurrency(StrStrip(value)), " ", <<>>), "nbsp", <<>>)
      comma_pos == RFind(cleaned, ",")
      dot_pos == RFind(cleaned, ".")
  IN  IF cleaned = <<>> THEN [ok |-> FALSE]
      ELSE IF comma_pos # 0 \/ dot_pos # 0
      THEN IF comma_pos > dot_pos
           THEN DecimalOf(ReplaceCh(ReplaceCh(cleaned, ".", <<>>), ",", <<".">>))
           ELSE DecimalOf(ReplaceCh(cleaned, ",", <<>>))
      ELSE DecimalOf(cleaned)

\* parse_decimal_optional(value)
parse_decimal_optional(value) ==
  IF value = <<>> \/ StrStrip(value) = <<>> THEN None
  ELSE LET r == parse_decimal_ptbr_en(value)
       IN  IF r.ok THEN Some(ToCents(r)) ELSE None

\* ------------------------------------------------------------------------
\* Status normalisation at ingestion (app/data/routes.py)
\* ------------------------------------------------------------------------
INGEST_STATUS_ALIASES ==
  { <<<<"c","o","n","c","l","u","i","d","o">>, <<"e","n","t","r","e","g","u","e">>>>,
    <<<<"c","o","n","c","l","u","i","d","a">>, <<"e","n","t","r","e","g","u","e">>>>,
    <<<<"f","i","n","a","l","i","z","a","d","o">>, <<"e","n","t","r","e","g","u","e">>>>,
    <<<<"d","e","l","i","v","e","r","e","d">>, <<"e","n","t","r","e","g","u","e">>>>,
    <<<<"a","p","r","o","v","a","d","o">>, <<"p","a","g","o">>>>,
    <<<<"a","p","r","o","v","a","d","a">>, <<"p","a","g","o">>>>,
    <<<<"p","a","i","d">>, <<"p","a","g","o">>>>,
    <<<<"s","h","i","p","p","e","d">>, <<"e","n","v","i","a","d","o">>>>,
    <<<<"p","o","s","t","a","d","o">>, <<"e","n","v","i","a","d","o">>>>,
    <<<<"d","e","s","p","a","c","h","a","d","o">>, <<"e","n","v","i","a","d","o">>>>,
    <<<<"c","a","n","c","e","l","a","d","a">>, <<"c","a","n","c","e","l","a","d","o">>>>,
    <<<<"c","a","n","c","e","l","e","d">>, <<"c","a","n","c","e","l","a","d","o">>>> }

\* dict.get(key, default) on a table of <<key, value>> pairs
Lookup(table, key, default) ==
  IF \E e \in table : e[1] = key
  THEN (CHOOSE e \in table : e[1] = key)[2]
  ELSE default

\* the steps shared by normalize_status and _normalize_status
StatusKey(value) ==
  StrStripCh(
    CollapseUnderscores(
      ReplaceCh(ReplaceCh(StrStrip(StrLower(StrUnaccent(value))), " ", <<"_">>), "-", <<"_">>)),
    "_")

\* normalize_status(value) of app/data/routes.py
normalize_status(value) ==
  IF value = <<>> THEN <<>>
  ELSE Lookup(INGEST_STATUS_ALIASES, StatusKey(value), StatusKey(value))

\* ------------------------------------------------------------------------
\* Status normalisation in the metrics engine (app/services/metrics.py)
\* ------------------------------------------------------------------------
VALID_STATUSES == {<<"p","a","g","o">>, <<"e","n","v","i","a","d","o">>, <<"e","n","t","r","e","g","u","e">>}
CANCELLED_STATUS == <<"c","a","n","c","e","l","a","d","o">>

STATUS_ALIASES ==
  { <<<<"c","o","n","c","l","u","i","d","o">>, <<"e","n","t","r","e","g","u","e">>>>,
    <<<<"c","o","n","c","l","u","i","d","a">>, <<"e","n","t","r","e","g","u","e">>>>,
    <<<<"c","o","n","c","l","u","í","d","o">>, <<"e","n","t","r","e","g","u","e">>>>,
    <<<<"c","o","n","c","l","u","í","d","a">>, <<"e","n","t","r","e","g","u","e">>>>,
    <<<<"f","i","n","a","l","i","z","a","d","o">>, <<"e","n","t","r","e","g","u","e">>>>,
    <<<<"f","i","n","a","l","i","z","a","d","a">>, <<"e","n","t","r","e","g","u","e">>>>,
    <<<<"d","e","l","i","v","e","r","e","d">>, <<"e","n","t","r","e","g","u","e">>>>,
    <<<<"a","p","r","o","v","a","d","o">>, <<"p","a","g","o">>>>,
    <<<<"a","p","r","o","v","a","d","a">>, <<"p","a","g","o">>>>,
    <<<<"p","a","i","d">>, <<"p","a","g","o">>>>,
    <<<<"p","a","g","o">>, <<"p","a","g","o">>>>,
    <<<<"e","n","v","i","a","d","o">>, <<"e","n","v","i","a","d","o">>>>,
    <<<<"s","h","i","p","p","e","d">>, <<"e","n","v","i","a","d","o">>>>,
    <<<<"p","o","s","t","a","d","o">>, <<"e","n","v","i","a","d","o">>>>,
    <<<<"d","e","s","p","a","c","h","a","d","o">>, <<"e","n","v","i","a","d","o">>>>,
    <<<<"c","a","n","c","e","l","a","d","o">>, <<"c","a","n","c","e","l","a","d","o">>>>,
    <<<<"c","a","n","c","e","l","a","d","a">>, <<"c","a","n","c","e","l","a","d","o">>>>,
    <<<<"c","a","n","c","e","l","e","d">>, <<"c","a","n","c","e","l","a","d","o">>>> }

\* _normalize_status(value)
_normalize_status(value) ==
  IF value = <<>> THEN <<>>
  ELSE Lookup(STATUS_ALIASES, StatusKey(value), StatusKey(value))

\* ------------------------------------------------------------------------
\* Header mapping of the CSV upload (app/data/routes.py)
\* ------------------------------------------------------------------------
MAX_UPLOAD_SIZE == 2097152

F_nome_produto == <<"n","o","m","e","_","p","r","o","d","u","t","o">>
F_sku == <<"s","k","u">>
F_status_pedido == <<"s","t","a","t","u","s","_","p","e","d","i","d","o">>
F_data_venda == <<"d","a","t","a","_","v","e","n","d","a">>
F_valor_total_venda == <<"v","a","l","o","r","_","t","o","t","a","l","_","v","e","n","d","a">>
F_comprador == <<"c","o","m","p","r","a","d","o","r">>
F_custo_envio == <<"c","u","s","t","o","_","e","n","v","i","o">>
F_receita_envio == <<"r","e","c","e","i","t","a","_","e","n","v","i","o">>

REQUIRED_COLUMNS == {F_nome_produto, F_sku, F_status_pedido, F_data_venda, F_valor_total_venda}

\* HEADER_SYNONYMS, in the order of the dict
HEADER_SYNONYMS ==
  <<
    [internal |-> <<"n","o","m","e","_","p","r","o","d","u","t","o">>,
     synonyms |-> {<<"n","o","m","e","_","p","r","o","d","u","t","o">>,
        <<"n","o","m","e">>,
        <<"p","r","o","d","u","t","o">>,
        <<"t","i","t","u","l","o">>,
        <<"t","i","t","u","l","o","_","p","r","o","d","u","t","o">>,
        <<"i","t","e","m">>,
        <<"d","e","s","c","r","i","c","a","o">>,
        <<"d","e","s","c","r","i","c","a","o","_","p","r","o","d","u","t","o">>}],
    [internal |-> <<"s","k","u">>,
     synonyms |-> {<<"s","k","u">>,
        <<"c","o","d","i","g","o">>,
        <<"c","o","d","i","g","o","_","s","k","u">>,
        <<"r","e","f","e","r","e","n","c","i","a">>,
        <<"i","d","_","s","k","u">>}],
    [internal |-> <<"s","t","a","t","u","s","_","p","e","d","i","d","o">>,
     synonyms |-> {<<"s","t","a","t","u","s","_","p","e","d","i","d","o">>,
        <<"s","t","a","t","u","s">>,
        <<"s","i","t","u","a","c","a","o">>,
        <<"s","t","a","t","u","s","_","d","a","_","v","e","n","d","a">>,
        <<"s","i","t","u","a","c","a","o","_","p","e","d","i","d","o">>}],
    [internal |-> <<"d","a","t","a","_","v","e","n","d","a">>,
     synonyms |-> {<<"d","a","t","a","_","v","e","n","d","a">>,
        <<"d","a","t","a">>,
        <<"d","a","t","a","_","p","e","d","i","d","o">>,
        <<"d","a","t","a","_","d","a","_","v","e","n","d","a">>,
        <<"p","e","d","i","d","o","_","d","a","t","a">>}],
    [internal |-> <<"v","a","l","o","r","_","t","o","t","a","l","_","v","e","n","d","a">>,
     synonyms |-> {<<"v","a","l","o","r","_","t","o","t","a","l","_","v","e","n","d","a">>,
        <<"v","a","l","o","r">>,
        <<"t","o","t","a","l">>,
        <<"v","a","l","o","r","_","t","o","t","a","l">>,
        <<"p","r","e","c","o","_","t","o","t","a","l">>,
        <<"p","r","e","c","o">>,
        <<"m","o","n","t","a","n","t","e">>}],
    [internal |-> <<"n","u","m","e","r","o","_","p","e","d","i","d","o">>,
     synonyms |-> {<<"n","u","m","e","r","o","_","p","e","d","i","d","o">>,
        <<"n","_","d","e","_","v","e","n","d","a">>,
        <<"n","u","m","e","r","o","_","v","e","n","d","a">>,
        <<"n","u","m","_","p","e","d","i","d","o">>,
        <<"i","d","_","p","e","d","i","d","o">>,
        <<"p","e","d","i","d","o">>}],
    [internal |-> <<"t","i","t","u","l","o","_","a","n","u","n","c","i","o">>,
     synonyms |-> {<<"t","i","t","u","l","o","_","a","n","u","n","c","i","o">>,
        <<"t","i","t","u","l","o","_","d","o","_","a","n","u","n","c","i","o">>,
        <<"a","n","u","n","c","i","o">>,
        <<"t","i","t","u","l","o","_","p","r","o","d","u","t","o">>}],
    [internal |-> <<"n","u","m","e","r","o","_","a","n","u","n","c","i","o">>,
     synonyms |-> {<<"n","u","m","e","r","o","_","a","n","u","n","c","i","o">>,
        <<"_","d","e","_","a","n","u","n","c","i","o">>,
        <<"n","u","m","_","a","n","u","n","c","i","o">>,
        <<"i","d","_","a","n","u","n","c","i","o">>,
        <<"a","n","u","n","c","i","o","_","i","d">>}],
    [internal |-> <<"u","n","i","d","a","d","e","s">>,
     synonyms |-> {<<"u","n","i","d","a","d","e","s">>,
        <<"q","u","a","n","t","i","d","a","d","e">>,
        <<"q","t","d">>,
        <<"q","t","d","e">>,
        <<"q","t","e">>}],
    [internal |-> <<"c","o","m","p","r","a","d","o","r">>,
     synonyms |-> {<<"c","o","m","p","r","a","d","o","r">>,
        <<"c","l","i","e","n","t","e">>,
        <<"n","o","m","e","_","c","o","m","p","r","a","d","o","r">>,
        <<"c","l","i","e","n","t","e","_","n","o","m","e">>,
        <<"b","u","y","e","r">>}],
    [internal |-> <<"c","p","f","_","c","o","m","p","r","a","d","o","r">>,
     synonyms |-> {<<"c","p","f","_","c","o","m","p","r","a","d","o","r">>,
        <<"c","p","f">>,
        <<"c","p","f","_","c","n","p","j">>,
        <<"d","o","c","u","m","e","n","t","o">>}],
    [internal |-> <<"t","o","t","a","l","_","b","r","l">>,
     synonyms |-> {<<"t","o","t","a","l","_","b","r","l">>,
        <<"t","o","t","a","l">>,
        <<"v","a","l","o","r","_","t","o","t","a","l">>,
        <<"t","o","t","a","l","_","r">>}],
    [internal |-> <<"r","e","c","e","i","t","a","_","p","r","o","d","u","t","o","s">>,
     synonyms |-> {<<"r","e","c","e","i","t","a","_","p","r","o","d","u","t","o","s">>,
        <<"r","e","c","e","i","t","a","_","p","o","r","_","p","r","o","d","u","t","o","s">>,
        <<"v","a","l","o","r","_","p","r","o","d","u","t","o","s">>,
        <<"p","r","o","d","u","t","o","s">>}],
    [internal |-> <<"r","e","c","e","i","t","a","_","a","c","r","e","s","c","i","m","o","_","p","r","e","c","o">>,
     synonyms |-> {<<"r","e","c","e","i","t","a","_","a","c","r","e","s","c","i","m","o","_","p","r","e","c","o">>,
        <<"a","c","r","e","s","c","i","m","o","_","n","o","_","p","r","e","c","o">>,
        <<"a","c","r","e","s","c","i","m","o">>,
        <<"a","c","r","e","s","c","i","m","o","_","p","r","e","c","o">>}],
    [internal |-> <<"t","a","x","a","_","p","a","r","c","e","l","a","m","e","n","t","o">>,
     synonyms |-> {<<"t","a","x","a","_","p","a","r","c","e","l","a","m","e","n","t","o">>,
        <<"t","a","x","a","_","d","e","_","p","a","r","c","e","l","a","m","e","n","t","o">>,
        <<"p","a","r","c","e","l","a","m","e","n","t","o">>}],
    [internal |-> <<"t","a","r","i","f","a","_","v","e","n","d","a","_","i","m","p","o","s","t","o","s">>,
     synonyms |-> {<<"t","a","r","i","f","a","_","v","e","n","d","a","_","i","m","p","o","s","t","o","s">>,
        <<"t","a","r","i","f","a","_","d","e","_","v","e","n","d","a","_","e","_","i","m","p","o","s","t","o","s">>,
        <<"t","a","r","i","f","a","s">>,
        <<"i","m","p","o","s","t","o","s">>}],
    [internal |-> <<"r","e","c","e","i","t","a","_","e","n","v","i","o">>,
     synonyms |-> {<<"r","e","c","e","i","t","a","_","e","n","v","i","o">>,
        <<"r","e","c","e","i","t","a","_","p","o","r","_","e","n","v","i","o">>,
        <<"v","a","l","o","r","_","e","n","v","i","o">>,
        <<"f","r","e","t","e","_","c","o","b","r","a","d","o">>}],
    [internal |-> <<"t","a","r","i","f","a","s","_","e","n","v","i","o">>,
     synonyms |-> {<<"t","a","r","i","f","a","s","_","e","n","v","i","o">>,
        <<"t","a","r","i","f","a","s","_","d","e","_","e","n","v","i","o">>,
        <<"t","a","x","a","_","e","n","v","i","o">>}],
    [internal |-> <<"c","u","s","t","o","_","e","n","v","i","o">>,
     synonyms |-> {<<"c","u","s","t","o","_","e","n","v","i","o">>,
        <<"c","u","s","t","o","_","d","e","_","e","n","v","i","o">>,
        <<"v","a","l","o","r","_","f","r","e","t","e">>}],
    [internal |-> <<"c","u","s","t","o","_","d","i","f","e","r","e","n","c","a","s","_","p","e","s","o">>,
     synonyms |-> {<<"c","u","s","t","o","_","d","i","f","e","r","e","n","c","a","s","_","p","e","s","o">>,
        <<"c","u","s","t","o","_","p","o","r","_","d","i","f","e","r","e","n","c","a","s","_","d","e","_","p","e","s","o","_","e","_","d","i","m","e","n","s","o","e","s">>,
        <<"d","i","f","e","r","e","n","c","a","_","p","e","s","o">>}],
    [internal |-> <<"c","a","n","c","e","l","a","m","e","n","t","o","s","_","r","e","e","m","b","o","l","s","o","s">>,
     synonyms |-> {<<"c","a","n","c","e","l","a","m","e","n","t","o","s","_","r","e","e","m","b","o","l","s","o","s">>,
        <<"c","a","n","c","e","l","a","m","e","n","t","o","s","_","e","_","r","e","e","m","b","o","l","s","o","s">>,
        <<"r","e","e","m","b","o","l","s","o","s">>,
        <<"c","a","n","c","e","l","a","m","e","n","t","o","s">>}],
    [internal |-> <<"p","r","e","c","o","_","u","n","i","t","a","r","i","o">>,
     synonyms |-> {<<"p","r","e","c","o","_","u","n","i","t","a","r","i","o">>,
        <<"p","r","e","c","o","_","p","o","r","_","u","n","i","d","a","d","e">>,
        <<"v","a","l","o","r","_","u","n","i","t","a","r","i","o">>}],
    [internal |-> <<"e","s","t","a","d","o","_","c","o","m","p","r","a","d","o","r">>,
     synonyms |-> {<<"e","s","t","a","d","o","_","c","o","m","p","r","a","d","o","r">>,
        <<"e","s","t","a","d","o">>,
        <<"u","f">>,
        <<"e","s","t","a","d","o","_","e","n","t","r","e","g","a">>}],
    [internal |-> <<"c","i","d","a","d","e","_","c","o","m","p","r","a","d","o","r">>,
     synonyms |-> {<<"c","i","d","a","d","e","_","c","o","m","p","r","a","d","o","r">>,
        <<"c","i","d","a","d","e">>,
        <<"c","i","d","a","d","e","_","e","n","t","r","e","g","a">>,
        <<"m","u","n","i","c","i","p","i","o">>}],
    [internal |-> <<"f","o","r","m","a","_","e","n","t","r","e","g","a">>,
     synonyms |-> {<<"f","o","r","m","a","_","e","n","t","r","e","g","a">>,
        <<"t","i","p","o","_","e","n","t","r","e","g","a">>,
        <<"m","e","t","o","d","o","_","e","n","v","i","o">>,
        <<"m","o","d","a","l","i","d","a","d","e">>}]
  >>

\* normalize_header(value)
normalize_header(value) ==
  IF value = <<>> THEN <<>>
  ELSE StrStripCh(
         CollapseUnderscores(
           NonAlnumToUnderscore(StrStrip(StrLower(StrUnaccent(value))))),
         "_")

\* map_header(header): the first entry of HEADER_SYNONYMS that knows the header
map_header(header) ==
  LET hits == {i \in 1..Len(HEADER_SYNONYMS) :
                 header = HEADER_SYNONYMS[i].internal \/ header \in HEADER_SYNONYMS[i].synonyms}
  IN  IF hits = {} THEN None
      ELSE Some(HEADER_SYNONYMS[CHOOSE i \in hits : \A j \in hits : i <= j].internal)

\* the loop that fills header_map from reader.fieldnames: a function from the
\* canonical fields found to the source header kept for each
RECURSIVE BuildHeaderMap(_, _)
BuildHeaderMap(fieldnames, header_map) ==
  IF fieldnames = <<>> THEN header_map
  ELSE LET original_header == Head(fieldnames)
           internal_name == map_header(normalize_header(original_header))
       IN  IF internal_name # None /\ internal_name[1] \notin DOMAIN header_map
           THEN BuildHeaderMap(Tail(fieldnames),
                  [k \in DOMAIN header_map \cup {internal_name[1]} |->
                     IF k = internal_name[1] THEN original_header ELSE header_map[k]])
           ELSE BuildHeaderMap(Tail(fieldnames), header_map)

EmptyMap == [k \in {} |-> <<>>]

\* row.get(source) of a csv.DictReader row: dict(zip(fieldnames, row)) keeps the
\* last column of a repeated header, a column the row does not reach is None
RowGet(fieldnames, row, source) ==
  LET cols == {i \in 1..Len(fieldnames) : fieldnames[i] = source}
      last == CHOOSE i \in cols : \A j \in cols : j <= i
  IN  IF cols = {} THEN None
      ELSE IF last <= Len(row) THEN Some(row[last]) ELSE None

\* line_data of one row: (row.get(source) or "").strip() per mapped field
LineData(fieldnames, header_map, row) ==
  [key \in DOMAIN header_map |->
     LET v == RowGet(fieldnames, row, header_map[key])
     IN  IF v = None THEN <<>> ELSE StrStrip(v[1])]

\* line_data.get(key, "")
LineGet(line_data, key) == IF key \in DOMAIN line_data THEN line_data[key] ELSE <<>>

\* ------------------------------------------------------------------------
\* Users and marketplaces created by create_app (app/__init__.py)
\* ------------------------------------------------------------------------
Users == { [id |-> 1, role |-> "manager"], [id |-> 2, role |-> "user"] }
MarketplaceIds == 1..4

is_manager(user) == user.role = "manager"

\* ------------------------------------------------------------------------
\* upload_submit (app/data/routes.py)
\* ------------------------------------------------------------------------
\* categorize_price_range(price), price None or Some(cents): '50' and '200'
\* are 5000 and 20000 cents
categorize_price_range(price) ==
  IF price = None THEN None
  ELSE IF price[1] < 5000 THEN Some("Baixo")
  ELSE IF price[1] <= 20000 THEN Some("Médio")
  ELSE Some("Alto")

\* `a or b` of two Optional[Decimal] in cents: None and 0 are false
DecimalOr(a, b) == IF a # None /\ a[1] # 0 THEN a ELSE b

\* custos += abs(x) under `if x:`
CostOf(x) == IF x # None /\ x[1] # 0 THEN Abs(x[1]) ELSE 0

\* calculate_profit_and_margin(...): (lucro_liquido, margem_percentual), the
\* amounts in cents, the margin the exact quotient in percent
calculate_profit_and_margin(receita_produtos, taxa_parcelamento, tarifa_venda_impostos, custo_envio, custo_diferencas_peso, cancelamentos_reembolsos) ==
  IF receita_produtos = None \/ receita_produtos[1] = 0
  THEN [lucro_liquido |-> None, margem_percentual |-> None]
  ELSE LET custos == CostOf(taxa_parcelamento) + CostOf(tarifa_venda_impostos)
                       + CostOf(custo_envio) + CostOf(custo_diferencas_peso)
                       + CostOf(cancelamentos_reembolsos)
           lucro_liquido == receita_produtos[1] - custos
       IN  [lucro_liquido |-> Some(lucro_liquido),
            margem_percentual |-> Some(Rat(lucro_liquido * 100, receita_produtos[1]))]

\* the body of the try block for one row: the Sale built, or the error raised
ProcessRow(current_user, marketplace_id, line_data) ==
  LET nome_produto == StrStrip(line_data[F_nome_produto])
      sku == StrStrip(line_data[F_sku])
      status == normalize_status(line_data[F_status_pedido])
      data_venda == parse_date(line_data[F_data_venda])
      valor_total == parse_decimal_ptbr_en(line_data[F_valor_total_venda])
      comprador == StrStrip(LineGet(line_data, F_comprador))
      optional(key) == parse_decimal_optional(LineGet(line_data, key))
      receita_produtos == optional(<<"r","e","c","e","i","t","a","_","p","r","o","d","u","t","o","s">>)
      taxa_parcelamento == optional(<<"t","a","x","a","_","p","a","r","c","e","l","a","m","e","n","t","o">>)
      tarifa_venda_impostos == optional(<<"t","a","r","i","f","a","_","v","e","n","d","a","_","i","m","p","o","s","t","o","s">>)
      custo_envio == optional(F_custo_envio)
      custo_diferencas_peso == optional(<<"c","u","s","t","o","_","d","i","f","e","r","e","n","c","a","s","_","p","e","s","o">>)
      cancelamentos_reembolsos == optional(<<"c","a","n","c","e","l","a","m","e","n","t","o","s","_","r","e","e","m","b","o","l","s","o","s">>)
      preco_unitario == optional(<<"p","r","e","c","o","_","u","n","i","t","a","r","i","o">>)
      profit == calculate_profit_and_margin(receita_produtos, taxa_parcelamento,
                  tarifa_venda_impostos, custo_envio, custo_diferencas_peso,
                  cancelamentos_reembolsos)
  IN  IF nome_produto = <<>> THEN [ok |-> FALSE, msg |-> "nome_produto vazio"]
      ELSE IF sku = <<>> THEN [ok |-> FALSE, msg |-> "sku vazio"]
      ELSE IF status = <<>> THEN [ok |-> FALSE, msg |-> "status_pedido inválido"]
      ELSE IF ~data_venda.ok THEN [ok |-> FALSE, msg |-> data_venda.msg]
      ELSE IF ~valor_total.ok THEN [ok |-> FALSE, msg |-> "InvalidOperation"]
      ELSE [ok |-> TRUE,
            sale |-> [marketplace_id |-> marketplace_id,
                      company_id |-> IF ~is_manager(current_user) THEN Some(current_user.id) ELSE None,
                      nome_produto |-> nome_produto,
                      sku |-> sku,
                      status_pedido |-> status,
                      data_venda |-> data_venda.date,
                      valor_total_venda |-> ToCents(valor_total),
                      comprador |-> IF comprador = <<>> THEN None ELSE Some(comprador),
                      receita_envio |-> parse_decimal_optional(LineGet(line_data, F_receita_envio)),
                      custo_envio |-> custo_envio,
                      receita_produtos |-> receita_produtos,
                      taxa_parcelamento |-> taxa_parcelamento,
                      tarifa_venda_impostos |-> tarifa_venda_impostos,
                      custo_diferencas_peso |-> custo_diferencas_peso,
                      cancelamentos_reembolsos |-> cancelamentos_reembolsos,
                      preco_unitario |-> preco_unitario,
                      lucro_liquido |-> profit.lucro_liquido,
                      margem_percentual |-> profit.margem_percentual,
                      faixa_preco |-> categorize_price_range(
                                        DecimalOr(preco_unitario, Some(ToCents(valor_total))))]]

\* the loop over the rows: line numbers start at 2, the header being line 1
RECURSIVE ProcessRows(_, _, _, _, _, _)
ProcessRows(current_user, marketplace_id, fieldnames, header_map, rows, acc) ==
  IF rows = <<>> THEN acc
  ELSE LET line_number == acc.total_rows + 2
           r == ProcessRow(current_user, marketplace_id,
                           LineData(fieldnames, header_map, Head(rows)))
           next == [total_rows |-> acc.total_rows + 1,
                    sales_to_insert |-> IF r.ok THEN Append(acc.sales_to_insert, r.sale)
                                        ELSE acc.sales_to_insert,
                    errors |-> IF r.ok THEN acc.errors
                               ELSE Append(acc.errors, [line |-> line_number, msg |-> r.msg])]
       IN  ProcessRows(current_user, marketplace_id, fieldnames, header_map, Tail(rows), next)

EndsWithCsv(filename) ==
  LET n == StrLower(filename)
  IN  Len(n) >= 4 /\ SubSeq(n, Len(n) - 3, Len(n)) = <<".", "c", "s", "v">>

Failure(outcome) == [outcome |-> outcome, sales_to_insert |-> <<>>]

\* the response if missing columns were reported as an import of no rows
MissingColumnsAsEmptySummary(missing_columns) ==
  [outcome |-> "summary", total_rows |-> 0, imported_count |-> 0, ignored_count |-> 0,
   category |-> "warning", errors |-> <<>>, selected_company_id |-> None,
   sales_to_insert |-> <<>>]

\* the response to a header without all of REQUIRED_COLUMNS: the flash
\* "CSV inválido. Colunas ausentes: ..." and the form again
MissingColumnsResponse(missing_columns) ==
  [outcome |-> "missing_columns", missing_columns |-> missing_columns,
   sales_to_insert |-> <<>>]

\* the part of upload_submit that looks at the file
UploadFile(current_user, form, file) ==
  IF ~EndsWithCsv(file.filename) THEN Failure("not_csv")
  ELSE IF file.size > MAX_UPLOAD_SIZE THEN Failure("too_large")
  ELSE IF file.size = 0 THEN Failure("empty_file")
  ELSE IF file.fieldnames = <<>> THEN Failure("no_header")
  ELSE LET header_map == BuildHeaderMap(file.fieldnames, EmptyMap)
           missing_columns == REQUIRED_COLUMNS \ DOMAIN header_map
       IN  IF missing_columns # {}
           THEN MissingColumnsResponse(missing_columns)
           ELSE LET done == ProcessRows(current_user, form.marketplace_id.v, file.fieldnames,
                                        header_map, file.rows,
                                        [total_rows |-> 0, sales_to_insert |-> <<>>,
                                         errors |-> <<>>])
                    imported_count == Len(done.sales_to_insert)
                IN  [outcome |-> "summary",
                     total_rows |-> done.total_rows,
                     imported_count |-> imported_count,
                     ignored_count |-> done.total_rows - imported_count,
                     category |-> IF imported_count # 0 /\ done.errors = <<>>
                                  THEN "success" ELSE "warning",
                     errors |-> done.errors,
                     selected_company_id |-> IF form.company_id.kind = "int" THEN Some(form.company_id.v) ELSE None,
                     sales_to_insert |-> done.sales_to_insert]


\* upload_submit: the response and the Sale rows it commits.  The form fields
\* marketplace_id and company_id are [kind, v] with kind "int" (v the number),
\* "text" (not a number) or "missing"; file is None or Some of
\* [filename, size, fieldnames, rows], the header and rows as csv.DictReader
\* reads them
upload_submit(current_user, form, file) ==
  IF ~is_manager(current_user) THEN Failure("redirect")
  ELSE IF form.marketplace_id.kind # "int" THEN Failure("invalid_marketplace")
  ELSE IF form.company_id.kind = "text" THEN Failure("invalid_company")
  ELSE IF form.company_id.kind = "int" /\ form.company_id.v = 0 THEN Failure("invalid_company")
  ELSE IF form.company_id.kind = "int"
          /\ ~\E u \in Users : u.id = form.company_id.v /\ u.role = "user"
       THEN Failure("invalid_company")
  ELSE IF form.marketplace_id.v \notin MarketplaceIds THEN Failure("marketplace_not_found")
  ELSE IF file = None \/ file[1].filename = <<>> THEN Failure("no_file")
  ELSE UploadFile(current_user, form, file[1])

RECURSIVE SeqToBag(_)
SeqToBag(s) == IF s = <<>> THEN EmptyBag ELSE SetToBag({Head(s)}) (+) SeqToBag(Tail(s))

\* ------------------------------------------------------------------------
\* The metrics engine (app/services/metrics.py).  A query is the bag of Sale
\* rows it selects; a filter argument is None or Some(value).
\* ------------------------------------------------------------------------
\* truth value of an Optional[int] argument: None and 0 are false
Truthy(x) == x # None /\ x[1] # 0

BagFilter(B, P(_)) == [s \in {x \in BagToSet(B) : P(x)} |-> B[s]]

\* sum of val[x] over the rows of a bag, copies counted
BagSum(B, val) ==
  LET xs == SetToSeq(BagToSet(B))
  IN  SumSeq([i \in 1..Len(xs) |-> B[xs[i]] * val[xs[i]]])

\* _apply_common_filters(query, start, end, marketplace_id, company_id)
_apply_common_filters(query, start, end, marketplace_id, company_id) ==
  LET keep(s) ==
        /\ (start # None => DateLE(start[1], s.data_venda))
        /\ (end # None => DateLE(s.data_venda, end[1]))
        /\ (Truthy(marketplace_id) => s.marketplace_id = marketplace_id[1])
        /\ (Truthy(company_id) => s.company_id = Some(company_id[1]))
  IN  BagFilter(query, keep)

\* SQL: SELECT status_pedido, count(id), coalesce(sum(valor_total_venda), 0)
\*      GROUP BY status_pedido
RowsByStatus(query) ==
  { [status_value |-> st,
     count |-> BagCardinality(BagFilter(query, LAMBDA s : s.status_pedido = st)),
     total |-> LET g == BagFilter(query, LAMBDA s : s.status_pedido = st)
               IN  BagSum(g, [s \in BagToSet(g) |-> s.valor_total_venda])]
    : st \in {s.status_pedido : s \in BagToSet(query)} }

\* the loop of get_kpis if it took every row for a valid one
KpiLoopEveryStatus(rows, acc) ==
  [acc EXCEPT !.pedidos_totais = @ + SumSeq([i \in 1..Len(rows) |-> rows[i].count]),
              !.faturamento_decimal = @ + SumSeq([i \in 1..Len(rows) |-> rows[i].total])]

\* the loop of get_kpis over the grouped rows
RECURSIVE KpiLoop(_, _)
KpiLoop(rows, acc) ==
  IF rows = <<>> THEN acc
  ELSE LET row == Head(rows)
           normalized == _normalize_status(row.status_value)
       IN  KpiLoop(Tail(rows),
             IF normalized \in VALID_STATUSES
             THEN [acc EXCEPT !.pedidos_totais = @ + row.count,
                              !.faturamento_decimal = @ + row.total]
             ELSE IF normalized = CANCELLED_STATUS
             THEN [acc EXCEPT !.cancelados = @ + row.count]
             ELSE acc)

\* get_kpis if it took the cancelled share of the valid orders only
get_kpis_rate_over_valid(session, start, end, marketplace_id, company_id) ==
  LET base_query == _apply_common_filters(session, start, end, marketplace_id, company_id)
      acc == KpiLoop(SetToSeq(RowsByStatus(base_query)),
                     [faturamento_decimal |-> 0, pedidos_totais |-> 0, cancelados |-> 0])
  IN  [faturamento |-> acc.faturamento_decimal,
       pedidos_totais |-> acc.pedidos_totais,
       ticket_medio |-> IF acc.pedidos_totais # 0
                        THEN RoundHalfEven(acc.faturamento_decimal, acc.pedidos_totais)
                        ELSE 0,
       taxa_cancelamento |-> IF acc.pedidos_totais # 0
                             THEN RoundHalfEven(acc.cancelados * 10000, acc.pedidos_totais)
                             ELSE 0]

\* get_kpis(session, start, end, marketplace_id, company_id); money in cents,
\* taxa_cancelamento in hundredths of a percent
get_kpis(session, start, end, marketplace_id, company_id) ==
  LET base_query == _apply_common_filters(session, start, end, marketplace_id, company_id)
      acc == KpiLoop(SetToSeq(RowsByStatus(base_query)),
                     [faturamento_decimal |-> 0, pedidos_totais |-> 0, cancelados |-> 0])
      total_considerado == acc.pedidos_totais + acc.cancelados
  IN  [faturamento |-> acc.faturamento_decimal,
       pedidos_totais |-> acc.pedidos_totais,
       ticket_medio |-> IF acc.pedidos_totais # 0
                        THEN RoundHalfEven(acc.faturamento_decimal, acc.pedidos_totais)
                        ELSE 0,
       taxa_cancelamento |-> IF total_considerado # 0
                             THEN RoundHalfEven(acc.cancelados * 10000, total_considerado)
                             ELSE 0]

\* a finite set of dates in ascending order
RECURSIVE SortedDates(_)
SortedDates(S) ==
  IF S = {} THEN <<>>
  ELSE LET first == CHOOSE x \in S : \A y \in S : DateLE(x, y)
       IN  <<first>> \o SortedDates(S \ {first})

\* SQL: SELECT data_venda, status_pedido, coalesce(sum(valor_total_venda), 0)
\*      GROUP BY data_venda, status_pedido
RowsByDateStatus(query) ==
  { [data_venda |-> k[1], status_value |-> k[2],
     total |-> LET g == BagFilter(query, LAMBDA s : s.data_venda = k[1] /\ s.status_pedido = k[2])
               IN  BagSum(g, [s \in BagToSet(g) |-> s.valor_total_venda])]
    : k \in {<<s.data_venda, s.status_pedido>> : s \in BagToSet(query)} }

\* sales_timeseries if it compared the stored status, not the normalized one
sales_timeseries_stored_status(session, start, end, marketplace_id, company_id) ==
  LET query == _apply_common_filters(session, start, end, marketplace_id, company_id)
      rows == {r \in RowsByDateStatus(query) : r.status_value \in VALID_STATUSES}
      labels == SortedDates({r.data_venda : r \in rows})
      aggregated(key) ==
        LET rs == SetToSeq({r \in rows : r.data_venda = key})
        IN  SumSeq([i \in 1..Len(rs) |-> rs[i].total])
  IN  [labels |-> labels,
       values |-> [i \in 1..Len(labels) |-> aggregated(labels[i])]]

\* sales_timeseries(session, start, end, marketplace_id, company_id): the
\* dict `aggregated` is the sum per date of the rows with a valid status
sales_timeseries(session, start, end, marketplace_id, company_id) ==
  LET query == _apply_common_filters(session, start, end, marketplace_id, company_id)
      rows == {r \in RowsByDateStatus(query) : _normalize_status(r.status_value) \in VALID_STATUSES}
      labels == SortedDates({r.data_venda : r \in rows})
      aggregated(key) ==
        LET rs == SetToSeq({r \in rows : r.data_venda = key})
        IN  SumSeq([i \in 1..Len(rs) |-> rs[i].total])
  IN  [labels |-> labels,
       values |-> [i \in 1..Len(labels) |-> aggregated(labels[i])]]

\* SQL: SELECT status_pedido, count(id) GROUP BY status_pedido
\*      ORDER BY count(id) DESC -- every order of the rows the database may
\*      return (rows with equal counts come in any order)
StatusCountRows(query) ==
  LET groups == { [status_value |-> st,
                   count |-> BagCardinality(BagFilter(query, LAMBDA s : s.status_pedido = st))]
                  : st \in {s.status_pedido : s \in BagToSet(query)} }
  IN  {p \in Perms(groups) : \A i \in 1..(Len(p) - 1) : p[i].count >= p[i + 1].count}

\* the labels and values status_breakdown builds from the rows
StatusBreakdownOf(rows) ==
  [labels |-> [i \in 1..Len(rows) |-> _normalize_status(rows[i].status_value)],
   values |-> [i \in 1..Len(rows) |-> rows[i].count]]

\* status_breakdown(session, start, end, marketplace_id, company_id): the set
\* of results it may return
status_breakdown(session, start, end, marketplace_id, company_id) ==
  LET query == _apply_common_filters(session, start, end, marketplace_id, company_id)
  IN  {StatusBreakdownOf(rows) : rows \in StatusCountRows(query)}

\* ------------------------------------------------------------------------
\* abc_by_revenue.  Decimal quotients are kept as exact fractions [num, den]
\* with den > 0: the 28 digits of a Decimal and the conversion to float
\* decide every comparison below as the exact value does for amounts of a
\* Numeric(12, 2) column
\* ------------------------------------------------------------------------
RatZero == [num |-> 0, den |-> 1]
RatAdd(a, b) ==
  IF a.den = b.den THEN [num |-> a.num + b.num, den |-> a.den]
  ELSE [num |-> a.num * b.den + b.num * a.den, den |-> a.den * b.den]
RatLE(a, b) == a.num * b.den <= b.num * a.den
RatEq(a, b) == a.num * b.den = b.num * a.den

\* thresholds or {'A': 0.8, 'B': 0.95}: a dict from 'A', 'B' to hundredths;
\* the empty dict stands for None as well
DefaultThresholds == [k \in {"A", "B"} |-> IF k = "A" THEN 80 ELSE 95]
ThresholdsOrDefault(thresholds) ==
  IF DOMAIN thresholds = {} THEN DefaultThresholds ELSE thresholds
\* thresholds.get(key, default)
ThresholdGet(thresholds, key, default) ==
  IF key \in DOMAIN thresholds THEN thresholds[key] ELSE default

\* SQL: SELECT sku, status_pedido, coalesce(sum(valor_total_venda), 0) AS total
\*      GROUP BY sku, status_pedido ORDER BY total DESC -- every order of the
\*      rows the database may return
AbcRows(query) ==
  LET groups ==
        { [sku |-> k[1], status_value |-> k[2],
           total |-> LET g == BagFilter(query, LAMBDA s : s.sku = k[1] /\ s.status_pedido = k[2])
                     IN  BagSum(g, [s \in BagToSet(g) |-> s.valor_total_venda])]
          : k \in {<<s.sku, s.status_pedido>> : s \in BagToSet(query)} }
  IN  {p \in Perms(groups) : \A i \in 1..(Len(p) - 1) : p[i].total >= p[i + 1].total}

\* the loop filling the dict `aggregated`, kept in insertion order as a
\* sequence of [sku, total]
RECURSIVE AbcAggregate(_, _)
AbcAggregate(rows, aggregated) ==
  IF rows = <<>> THEN aggregated
  ELSE LET row == Head(rows)
           normalized == _normalize_status(row.status_value)
           known == {i \in 1..Len(aggregated) : aggregated[i].sku = row.sku}
       IN  IF normalized \notin VALID_STATUSES THEN AbcAggregate(Tail(rows), aggregated)
           ELSE IF known = {}
           THEN AbcAggregate(Tail(rows), Append(aggregated, [sku |-> row.sku, total |-> row.total]))
           ELSE AbcAggregate(Tail(rows),
                  [aggregated EXCEPT ![CHOOSE i \in known : TRUE].total = @ + row.total])

\* sorted(items, key=total, reverse=True): stable, equal totals keep their order
RECURSIVE SortByTotalDesc(_)
SortByTotalDesc(items) ==
  IF items = <<>> THEN <<>>
  ELSE LET k == CHOOSE i \in 1..Len(items) :
                  /\ \A j \in 1..Len(items) : items[j].total <= items[i].total
                  /\ \A j \in 1..(i - 1) : items[j].total < items[i].total
       IN  <<items[k]>> \o SortByTotalDesc(SubSeq(items, 1, k - 1) \o SubSeq(items, k + 1, Len(items)))

\* classe if a share on a threshold fell into the next class
AbcClasseStrict(acumulado, thresholds) ==
  IF ~RatLE(Rat(ThresholdGet(thresholds, "A", 80), 1), acumulado) THEN "A"
  ELSE IF ~RatLE(Rat(ThresholdGet(thresholds, "B", 95), 1), acumulado) THEN "B"
  ELSE "C"

\* classe of an accumulated percentage
AbcClasse(acumulado, thresholds) ==
  IF RatLE(acumulado, Rat(ThresholdGet(thresholds, "A", 80), 1)) THEN "A"
  ELSE IF RatLE(acumulado, Rat(ThresholdGet(thresholds, "B", 95), 1)) THEN "B"
  ELSE "C"

\* the loop over sorted_items
RECURSIVE AbcLoop(_, _, _, _, _)
AbcLoop(sorted_items, total_revenue, thresholds, acumulado, resultado) ==
  IF sorted_items = <<>> THEN resultado
  ELSE LET data == Head(sorted_items)
           percentual == IF total_revenue # 0 THEN Rat(data.total * 100, total_revenue)
                         ELSE RatZero
           acumulado2 == RatAdd(acumulado, percentual)
       IN  AbcLoop(Tail(sorted_items), total_revenue, thresholds, acumulado2,
             Append(resultado,
               [sku |-> data.sku,
                faturamento |-> data.total,
                percentual |-> percentual,
                percentual_acumulado |-> acumulado2,
                classe |-> AbcClasse(acumulado2, thresholds)]))

\* the result if total_revenue were the total of every row, whatever its
\* status
AbcOfTotalOfEveryRow(rows, thresholds) ==
  LET sorted_items == SortByTotalDesc(AbcAggregate(rows, <<>>))
      total_revenue == SumSeq([i \in 1..Len(rows) |-> rows[i].total])
  IN  AbcLoop(sorted_items, total_revenue, ThresholdsOrDefault(thresholds), RatZero, <<>>)

\* the result if the aggregated SKUs were left in the order of the rows
AbcOfUnsorted(rows, thresholds) ==
  LET sorted_items == AbcAggregate(rows, <<>>)
      total_revenue == SumSeq([i \in 1..Len(sorted_items) |-> sorted_items[i].total])
  IN  AbcLoop(sorted_items, total_revenue, ThresholdsOrDefault(thresholds), RatZero, <<>>)

\* what abc_by_revenue returns for one order of the rows
AbcOf(rows, thresholds) ==
  LET sorted_items == SortByTotalDesc(AbcAggregate(rows, <<>>))
      total_revenue == SumSeq([i \in 1..Len(sorted_items) |-> sorted_items[i].total])
  IN  AbcLoop(sorted_items, total_revenue, ThresholdsOrDefault(thresholds), RatZero, <<>>)

\* abc_by_revenue(session, start, end, marketplace_id, company_id, thresholds):
\* the set of results it may return (the entries without nome_produto)
abc_by_revenue(session, start, end, marketplace_id, company_id, thresholds) ==
  LET query == _apply_common_filters(session, start, end, marketplace_id, company_id)
  IN  {AbcOf(rows, thresholds) : rows \in AbcRows(query)}

\* ------------------------------------------------------------------------
\* calculate_rfm_analysis
\* ------------------------------------------------------------------------
RECURSIVE SortInts(_)
\* sorted(list of numbers)
SortInts(s) ==
  IF s = <<>> THEN <<>>
  ELSE LET k == CHOOSE i \in 1..Len(s) : \A j \in 1..Len(s) : s[i] <= s[j]
       IN  <<s[k]>> \o SortInts(SubSeq(s, 1, k - 1) \o SubSeq(s, k + 1, Len(s)))

\* get_quartile_score if it scored recency as it scores the other two
get_quartile_score_larger_is_better(value, sorted_values, reverse) ==
  IF sorted_values = <<>> THEN 2
  ELSE IF value >= sorted_values[((3 * Len(sorted_values)) \div 4) + 1] THEN 4
  ELSE IF value >= sorted_values[(Len(sorted_values) \div 2) + 1] THEN 3
  ELSE IF value >= sorted_values[(Len(sorted_values) \div 4) + 1] THEN 2
  ELSE 1

\* get_quartile_score(value, sorted_values, reverse); list indices are 0-based
\* in the code, 1-based here
get_quartile_score(value, sorted_values, reverse) ==
  IF sorted_values = <<>> THEN 2
  ELSE LET q1 == sorted_values[(Len(sorted_values) \div 4) + 1]
           q2 == sorted_values[(Len(sorted_values) \div 2) + 1]
           q3 == sorted_values[((3 * Len(sorted_values)) \div 4) + 1]
       IN  IF reverse
           THEN IF value <= q1 THEN 4
                ELSE IF value <= q2 THEN 3
                ELSE IF value <= q3 THEN 2
                ELSE 1
           ELSE IF value >= q3 THEN 4
                ELSE IF value >= q2 THEN 3
                ELSE IF value >= q1 THEN 2
                ELSE 1

\* the chain if it tested the lowest recency score before 'At Risk'
SegmentLostFirst(r_score, f_score) ==
  IF r_score >= 4 /\ f_score >= 4 THEN "Champions"
  ELSE IF r_score >= 3 /\ f_score >= 3 THEN "Loyal Customers"
  ELSE IF r_score >= 4 /\ f_score <= 2 THEN "New Customers"
  ELSE IF r_score >= 3 /\ f_score <= 2 THEN "Potential Loyalists"
  ELSE IF r_score <= 1 THEN "Lost"
  ELSE IF r_score <= 2 /\ f_score >= 3 THEN "At Risk"
  ELSE IF r_score <= 2 /\ f_score >= 4 THEN "Cannot Lose Them"
  ELSE "Others"

\* the chain if it tested 'Cannot Lose Them' before 'At Risk'
SegmentCannotLoseFirst(r_score, f_score) ==
  IF r_score >= 4 /\ f_score >= 4 THEN "Champions"
  ELSE IF r_score >= 3 /\ f_score >= 3 THEN "Loyal Customers"
  ELSE IF r_score >= 4 /\ f_score <= 2 THEN "New Customers"
  ELSE IF r_score >= 3 /\ f_score <= 2 THEN "Potential Loyalists"
  ELSE IF r_score <= 2 /\ f_score >= 4 THEN "Cannot Lose Them"
  ELSE IF r_score <= 2 /\ f_score >= 3 THEN "At Risk"
  ELSE IF r_score <= 1 THEN "Lost"
  ELSE "Others"

\* the chain of if/elif that names the segment
Segment(r_score, f_score) ==
  IF r_score >= 4 /\ f_score >= 4 THEN "Champions"
  ELSE IF r_score >= 3 /\ f_score >= 3 THEN "Loyal Customers"
  ELSE IF r_score >= 4 /\ f_score <= 2 THEN "New Customers"
  ELSE IF r_score >= 3 /\ f_score <= 2 THEN "Potential Loyalists"
  ELSE IF r_score <= 2 /\ f_score >= 3 THEN "At Risk"
  ELSE IF r_score <= 2 /\ f_score >= 4 THEN "Cannot Lose Them"
  ELSE IF r_score <= 1 THEN "Lost"
  ELSE "Others"

\* str() of a number of one digit
DigitStr(d) == CHOOSE c \in Digits : DigitVal(c) = d

\* the scoring loop over rfm_data: every customer gets its scores, the
\* rfm_score (the three digits) and its segment
RfmScored(rfm_data) ==
  LET recencies == SortInts([i \in 1..Len(rfm_data) |-> rfm_data[i].recency])
      frequencies == SortInts([i \in 1..Len(rfm_data) |-> rfm_data[i].frequency])
      monetaries == SortInts([i \in 1..Len(rfm_data) |-> rfm_data[i].monetary])
  IN  [i \in 1..Len(rfm_data) |->
         LET customer == rfm_data[i]
             r_score == get_quartile_score(customer.recency, recencies, TRUE)
             f_score == get_quartile_score(customer.frequency, frequencies, FALSE)
             m_score == get_quartile_score(customer.monetary, monetaries, FALSE)
         IN  customer @@ [r_score |-> r_score,
                          f_score |-> f_score,
                          m_score |-> m_score,
                          rfm_score |-> <<DigitStr(r_score), DigitStr(f_score), DigitStr(m_score)>>,
                          segment |-> Segment(r_score, f_score)]]

\* SQL: WHERE comprador IS NOT NULL AND status_pedido IN ('pago', 'enviado',
\*      'entregue') on the filtered query
IdentifiedValidSales(query) ==
  BagFilter(query, LAMBDA s : s.comprador # None /\ s.status_pedido \in VALID_STATUSES)

MaxDate(S) == CHOOSE x \in S : \A y \in S : DateLE(y, x)
MinDate(S) == CHOOSE x \in S : \A y \in S : DateLE(x, y)

\* customer_data[comprador] and the RFM values computed from it
RfmCustomer(rows, comprador, reference_date) ==
  LET mine == BagFilter(rows, LAMBDA s : s.comprador = comprador)
      dates == {s.data_venda : s \in BagToSet(mine)}
  IN  [comprador |-> comprador[1],
       recency |-> ToOrdinal(reference_date) - ToOrdinal(MaxDate(dates)),
       frequency |-> BagCardinality(mine),
       monetary |-> BagSum(mine, [s \in BagToSet(mine) |-> s.valor_total_venda]),
       first_purchase |-> MinDate(dates),
       last_purchase |-> MaxDate(dates)]

\* calculate_rfm_analysis(session, start, end, marketplace_id), today being
\* datetime.now().date(): the set of results it may return.  The rows come
\* in any order, customer_data and rfm_data keep the order in which the
\* buyers first appear, and the final sort by monetary is stable
calculate_rfm_analysis(session, start, end, marketplace_id, today) ==
  LET query == _apply_common_filters(session, start, end, marketplace_id, None)
      rows == IdentifiedValidSales(query)
      reference_date == IF end # None THEN end[1] ELSE today
      buyers == {s.comprador : s \in BagToSet(rows)}
  IN  IF rows = EmptyBag THEN {<<>>}
      ELSE { LET scored == RfmScored([i \in 1..Len(order) |->
                                        RfmCustomer(rows, order[i], reference_date)])
             IN  scored
             : order \in {p \in Perms(buyers) :
                            \A i \in 1..(Len(p) - 1) :
                               RfmCustomer(rows, p[i], reference_date).monetary
                                 >= RfmCustomer(rows, p[i + 1], reference_date).monetary} }

\* ------------------------------------------------------------------------
\* cohort_analysis
\* ------------------------------------------------------------------------
RECURSIVE SortedMonths(_)
\* sorted() of a set of (year, month) keys
SortedMonths(S) ==
  IF S = {} THEN <<>>
  ELSE LET first == CHOOSE x \in S : \A y \in S : x[1] < y[1] \/ (x[1] = y[1] /\ x[2] <= y[2])
       IN  <<first>> \o SortedMonths(S \ {first})

\* the smallest element, where cohort_analysis takes the largest
SetMaxTakesSmallest(S) == CHOOSE x \in S : \A y \in S : x <= y

SetMax(S) == CHOOSE x \in S : \A y \in S : y <= x

\* round(retention_count / cohort_size, 2): the fraction, not the percentage
RetentionRateAsFraction(retention_count, cohort_size) ==
  RoundHalfEven(retention_count * 100, cohort_size)

\* round((retention_count / cohort_size) * 100, 2), in hundredths of a percent
RetentionRate(retention_count, cohort_size) ==
  RoundHalfEven(retention_count * 10000, cohort_size)

\* what cohort_analysis builds from its rows once it knows there are some;
\* cohort_labels are the (year, month) keys, period_labels the offsets, the
\* rates hundredths of a percent
CohortOf(rows) ==
  LET buyers == {s.comprador : s \in BagToSet(rows)}
      customer_purchases(c) == {s.data_venda : s \in {x \in BagToSet(rows) : x.comprador = c}}
      customer_cohorts(c) == _month_key(MinDate(customer_purchases(c)))
      months_diff(c, purchase_date) ==
        (_month_key(purchase_date)[1] - customer_cohorts(c)[1]) * 12
          + (_month_key(purchase_date)[2] - customer_cohorts(c)[2])
      \* cohort_data[cohort][period]
      cohort_data(cohort, period) ==
        {c \in buyers : /\ customer_cohorts(c) = cohort
                        /\ \E d \in customer_purchases(c) : months_diff(c, d) = period}
      periods_of(cohort) ==
        UNION { {months_diff(c, d) : d \in customer_purchases(c)}
                : c \in {b \in buyers : customer_cohorts(b) = cohort} }
      sorted_cohorts == SortedMonths({customer_cohorts(c) : c \in buyers})
      max_periods == SetMax({0} \cup UNION {periods_of(sorted_cohorts[i]) : i \in 1..Len(sorted_cohorts)})
      cohort_size(cohort) == Cardinality(cohort_data(cohort, 0))
  IN  [cohort_labels |-> sorted_cohorts,
       period_labels |-> [i \in 1..(max_periods + 1) |-> i - 1],
       retention_matrix |->
         [i \in 1..Len(sorted_cohorts) |->
            [j \in 1..(max_periods + 1) |->
               IF cohort_size(sorted_cohorts[i]) > 0
                  /\ cohort_data(sorted_cohorts[i], j - 1) # {}
               THEN RetentionRate(Cardinality(cohort_data(sorted_cohorts[i], j - 1)),
                                  cohort_size(sorted_cohorts[i]))
               ELSE 0]],
       cohort_sizes |-> [i \in 1..Len(sorted_cohorts) |-> cohort_size(sorted_cohorts[i])]]

\* cohort_analysis without its early returns
cohort_analysis_no_early_return(session, start, end, marketplace_id) ==
  CohortOf(IdentifiedValidSales(_apply_common_filters(session, start, end, marketplace_id, None)))

\* cohort_analysis(session, start, end, marketplace_id).  The second early
\* return, on no cohort at all, cannot be taken once there is a row
cohort_analysis(session, start, end, marketplace_id) ==
  LET query == _apply_common_filters(session, start, end, marketplace_id, None)
      rows == IdentifiedValidSales(query)
  IN  IF rows = EmptyBag
      THEN [cohort_labels |-> <<>>, period_labels |-> <<>>,
            retention_matrix |-> <<>>, cohort_sizes |-> <<>>]
      ELSE CohortOf(rows)

\* ------------------------------------------------------------------------
\* shipping_performance
\* ------------------------------------------------------------------------
\* SQL sum() and avg() of an Optional column: NULLs are skipped, None when
\* every value is NULL; avg is rounded to the cent by quantize
SqlSum(rows, col) ==
  LET present == BagFilter(rows, LAMBDA s : s[col] # None)
  IN  IF present = EmptyBag THEN None
      ELSE Some(BagSum(present, [s \in BagToSet(present) |-> s[col][1]]))

SqlAvgCents(rows, col) ==
  LET present == BagFilter(rows, LAMBDA s : s[col] # None)
  IN  IF present = EmptyBag THEN None
      ELSE Some(RoundHalfEven(SqlSum(rows, col)[1], BagCardinality(present)))

\* Decimal(x or 0)
OrZero(x) == IF x = None THEN 0 ELSE x[1]

\* shipping_performance(session, start, end, marketplace_id)
shipping_performance(session, start, end, marketplace_id) ==
  LET query == _apply_common_filters(session, start, end, marketplace_id, None)
      rows == BagFilter(query, LAMBDA s : s.status_pedido \in VALID_STATUSES)
      total_orders == BagCardinality(rows)
      total_cost_dec == OrZero(SqlSum(rows, "custo_envio"))
      total_revenue_dec == OrZero(SqlSum(rows, "receita_envio"))
  IN  IF total_orders = 0
      THEN [total_orders |-> 0, avg_shipping_cost |-> 0, avg_shipping_revenue |-> 0,
            total_shipping_cost |-> 0, total_shipping_revenue |-> 0, shipping_margin |-> 0]
      ELSE [total_orders |-> total_orders,
            avg_shipping_cost |-> OrZero(SqlAvgCents(rows, "custo_envio")),
            avg_shipping_revenue |-> OrZero(SqlAvgCents(rows, "receita_envio")),
            total_shipping_cost |-> total_cost_dec,
            total_shipping_revenue |-> total_revenue_dec,
            shipping_margin |-> IF total_revenue_dec > 0
                                THEN RoundHalfEven((total_revenue_dec - total_cost_dec) * 10000,
                                                   total_revenue_dec)
                                ELSE 0]

\* ------------------------------------------------------------------------
\* Inputs of the model
\* ------------------------------------------------------------------------
Manager == CHOOSE u \in Users : u.role = "manager"

FormInt(n) == [kind |-> "int", v |-> n]
FormMissing == [kind |-> "missing", v |-> 0]

Date(y, m, d) == [y |-> y, m |-> m, d |-> d]

\* the CSV of the KPI scenario: date, sku, name, status, amount
KpiHeader == <<<<"d","a","t","a">>, <<"s","k","u">>, <<"p","r","o","d","u","t","o">>, <<"s","t","a","t","u","s">>, <<"v","a","l","o","r">>>>

\* the rows of the KPI files: (date, status), the amount going with the date
KpiRows ==
  { <<<<"2","0","2","5","-","0","1","-","0","5">>, <<"p","a","g","o">>>>, <<<<"2","0","2","5","-","0","1","-","0","5">>, <<"c","a","n","c","e","l","a","d","o">>>>, <<<<"2","0","2","5","-","0","1","-","0","5">>, <<"E","m"," ","a","n","á","l","i","s","e">>>>,
    <<<<"2","0","2","5","-","0","1","-","0","6">>, <<"F","i","n","a","l","i","z","a","d","a">>>>, <<<<"2","0","2","5","-","0","1","-","0","6">>, <<"c","a","n","c","e","l","a","d","o">>>> }
KpiAmount(d) == IF d = <<"2","0","2","5","-","0","1","-","0","5">> THEN <<"1","0",",","5","0">> ELSE <<"5",",","0","0">>

CsvFile(header, rows) ==
  [filename |-> <<"v","e","n","d","a","s",".","c","s","v">>, size |-> 100, fieldnames |-> header, rows |-> rows]

\* one file per row, and the file of the two rows 'pago' 10,50 and
\* 'cancelado' 5,00
KpiFiles ==
  { CsvFile(KpiHeader, << <<r[1], <<"S","K","U","1">>, <<"W","i","d","g","e","t">>, r[2], KpiAmount(r[1])>> >>) : r \in KpiRows }
  \cup { CsvFile(KpiHeader,
           << <<<<"2","0","2","5","-","0","1","-","0","5">>, <<"S","K","U","1">>, <<"W","i","d","g","e","t">>, <<"p","a","g","o">>, <<"1","0",",","5","0">>>>,
              <<<<"2","0","2","5","-","0","1","-","0","6">>, <<"S","K","U","1">>, <<"W","i","d","g","e","t">>, <<"c","a","n","c","e","l","a","d","o">>, <<"5",",","0","0">>>> >>) }

Filter(s, e, m, c) == [start |-> s, end |-> e, marketplace_id |-> m, company_id |-> c]

KpiFilters ==
  { Filter(None, None, None, None),
    Filter(Some(Date(2025, 1, 5)), Some(Date(2025, 1, 5)), None, None),
    Filter(Some(Date(2025, 1, 6)), None, None, None),
    Filter(None, None, Some(1), None),
    Filter(None, None, None, Some(2)),
    Filter(Some(Date(2025, 1, 1)), Some(Date(2025, 1, 31)), Some(2), Some(2)) }

\* what upload_submit answers and commits for each request of a set
UploadRuns(users, forms, files) ==
  { [current_user |-> u, form |-> f, r |-> upload_submit(u, f, Some(file))]
      : u \in users, f \in forms, file \in files }

UploadForm(m) == [marketplace_id |-> FormInt(m), company_id |-> FormMissing]

KpiUploadRuns == UploadRuns({Manager}, {UploadForm(1), UploadForm(2)}, KpiFiles)

\* ------------------------------------------------------------------------
\* State machine: the Sale table, and the last request with its response
\* ------------------------------------------------------------------------
Init ==
  /\ sales = EmptyBag
  /\ op = "idle"
  /\ args = <<>>
  /\ ret = <<>>

\* POST /upload: one of the requests of runs, with what upload_submit answers
\* and commits for it
Upload(runs) ==
  \E run \in runs :
    /\ op = "idle"
    /\ BagCardinality(sales) + Len(run.r.sales_to_insert) <= MaxSales
    /\ sales' = sales (+) SeqToBag(run.r.sales_to_insert)
    /\ op' = "upload_submit"
    /\ args' = [current_user |-> run.current_user, form |-> run.form]
    /\ ret' = [k \in DOMAIN run.r \ {"sales_to_insert"} |-> run.r[k]]

\* UPDATE sale SET company_id = :company_id WHERE company_id IS NULL
BackfillCompany(table, company_id) ==
  LET fix(s) == [s EXCEPT !.company_id = IF @ = None THEN Some(company_id) ELSE @]
      sources(y) == SetToSeq({x \in BagToSet(table) : fix(x) = y})
  IN  [y \in {fix(s) : s \in BagToSet(table)} |->
         SumSeq([i \in 1..Len(sources(y)) |-> table[sources(y)[i]]])]

\* the application starts again: create_app gives every Sale without a
\* company the first user of role 'user'
create_app ==
  LET default_company ==
        CHOOSE u \in Users : u.role = "user" /\ \A v \in Users : v.role = "user" => u.id <= v.id
  IN  /\ op = "idle"
      /\ sales' = BackfillCompany(sales, default_company.id)
      /\ op' = "create_app"
      /\ args' = <<>>
      /\ ret' = <<>>

GetKpis(filters) ==
  \E f \in filters :
    /\ op = "idle"
    /\ op' = "get_kpis"
    /\ args' = f
    /\ ret' = get_kpis(sales, f.start, f.end, f.marketplace_id, f.company_id)
    /\ UNCHANGED sales

SalesTimeseries(filters) ==
  \E f \in filters :
    /\ op = "idle"
    /\ op' = "sales_timeseries"
    /\ args' = f
    /\ ret' = sales_timeseries(sales, f.start, f.end, f.marketplace_id, f.company_id)
    /\ UNCHANGED sales

StatusBreakdown(filters) ==
  \E f \in filters :
    /\ op = "idle"
    /\ op' = "status_breakdown"
    /\ args' = f
    /\ ret' \in status_breakdown(sales, f.start, f.end, f.marketplace_id, f.company_id)
    /\ UNCHANGED sales

AbcByRevenue(filters, thresholdsSet) ==
  \E f \in filters, thresholds \in thresholdsSet :
    /\ op = "idle"
    /\ op' = "abc_by_revenue"
    /\ args' = [filter |-> f, thresholds |-> thresholds]
    /\ ret' \in abc_by_revenue(sales, f.start, f.end, f.marketplace_id, f.company_id, thresholds)
    /\ UNCHANGED sales

\* today is the date datetime.now() gives during the call
CalculateRfmAnalysis(filters, todays) ==
  \E f \in filters, today \in todays :
    /\ op = "idle"
    /\ op' = "calculate_rfm_analysis"
    /\ args' = [filter |-> f, today |-> today]
    /\ ret' \in calculate_rfm_analysis(sales, f.start, f.end, f.marketplace_id, today)
    /\ UNCHANGED sales

CohortAnalysis(filters) ==
  \E f \in filters :
    /\ op = "idle"
    /\ op' = "cohort_analysis"
    /\ args' = f
    /\ ret' = cohort_analysis(sales, f.start, f.end, f.marketplace_id)
    /\ UNCHANGED sales

ShippingPerformance(filters) ==
  \E f \in filters :
    /\ op = "idle"
    /\ op' = "shipping_performance"
    /\ args' = f
    /\ ret' = shipping_performance(sales, f.start, f.end, f.marketplace_id)
    /\ UNCHANGED sales

\* the response has been sent
Return ==
  /\ op # "idle"
  /\ op' = "idle" /\ args' = <<>> /\ ret' = <<>>
  /\ UNCHANGED sales

\* ------------------------------------------------------------------------
\* Spec: uploads of the KPI files, restarts, and the KPI and time series
\* ------------------------------------------------------------------------
Next ==
  \/ Upload(KpiUploadRuns)
  \/ create_app
  \/ GetKpis(KpiFilters)
  \/ SalesTimeseries(KpiFilters)
  \/ Return

Spec == Init /\ [][Next]_vars

\* ------------------------------------------------------------------------
\* SpecStatus: uploads of rows whose statuses the two alias tables treat
\* differently, and the status breakdown
\* ------------------------------------------------------------------------
StatusStatuses == {<<"e","n","t","r","e","g","u","e">>, <<"F","i","n","a","l","i","z","a","d","a">>, <<"E","m"," ","a","n","á","l","i","s","e">>, <<"c","a","n","c","e","l","a","d","o">>}

StatusFiles ==
  { CsvFile(KpiHeader, << <<<<"2","0","2","5","-","0","1","-","0","5">>, <<"S","K","U","1">>, <<"W","i","d","g","e","t">>, st, <<"1","0",",","5","0">>>> >>)
      : st \in StatusStatuses }

StatusUploadRuns == UploadRuns({Manager}, {UploadForm(1), UploadForm(2)}, StatusFiles)

StatusFilters ==
  { Filter(None, None, None, None),
    Filter(None, None, Some(1), None) }

NextStatus ==
  \/ Upload(StatusUploadRuns)
  \/ StatusBreakdown(StatusFilters)
  \/ Return

SpecStatus == Init /\ [][NextStatus]_vars

\* ------------------------------------------------------------------------
\* SpecAbc: uploads of sales of three SKUs, with amounts that put the
\* accumulated share on the thresholds, and the ABC curve
\* ------------------------------------------------------------------------
AbcSkus == {<<"S","K","U","1">>, <<"S","K","U","2">>, <<"S","K","U","3">>}
AbcAmounts == {<<"0",",","8","0">>, <<"0",",","1","5">>, <<"0",",","0","5">>, <<"0",",","0","0">>, <<"-","0",",","0","5">>}
AbcStatuses == {<<"p","a","g","o">>, <<"c","a","n","c","e","l","a","d","o">>}

AbcFiles ==
  { CsvFile(KpiHeader, << <<<<"2","0","2","5","-","0","1","-","0","5">>, sku, <<"W","i","d","g","e","t">>, st, amount>> >>)
      : sku \in AbcSkus, st \in AbcStatuses, amount \in AbcAmounts }

AbcUploadRuns == UploadRuns({Manager}, {UploadForm(1)}, AbcFiles)

AbcFilters == { Filter(None, None, None, None) }

\* thresholds: None (the empty dict), both keys, one key only
AbcThresholds ==
  { [k \in {} |-> 0],
    [k \in {"A", "B"} |-> IF k = "A" THEN 50 ELSE 90],
    [k \in {"A"} |-> 15] }

NextAbc ==
  \/ Upload(AbcUploadRuns)
  \/ AbcByRevenue(AbcFilters, AbcThresholds)
  \/ Return

SpecAbc == Init /\ [][NextAbc]_vars

\* ------------------------------------------------------------------------
\* SpecRfm: uploads of sales with and without a buyer and with shipping
\* columns, and the customer analyses
\* ------------------------------------------------------------------------
RfmHeader == <<<<"d","a","t","a">>, <<"s","k","u">>, <<"p","r","o","d","u","t","o">>, <<"s","t","a","t","u","s">>, <<"v","a","l","o","r">>, <<"c","l","i","e","n","t","e">>, <<"c","u","s","t","o","_","e","n","v","i","o">>, <<"r","e","c","e","i","t","a","_","e","n","v","i","o">>>>
RfmBuyers == {<<"a","n","a">>, <<"b","i","a">>, <<>>}
RfmStatuses == {<<"p","a","g","o">>, <<"F","i","n","a","l","i","z","a","d","a">>, <<"c","a","n","c","e","l","a","d","o">>}
RfmDates == {<<"2","0","2","5","-","0","1","-","0","5">>, <<"2","0","2","5","-","0","2","-","1","0">>}
RfmAmount(d) == IF d = <<"2","0","2","5","-","0","1","-","0","5">> THEN <<"1","0",",","5","0">> ELSE <<"5",",","0","0">>
RfmCusto(d) == IF d = <<"2","0","2","5","-","0","1","-","0","5">> THEN <<"2",",","0","0">> ELSE <<>>
RfmReceita(d) == IF d = <<"2","0","2","5","-","0","1","-","0","5">> THEN <<"1",",","5","0">> ELSE <<"4",",","0","0">>

RfmFiles ==
  { CsvFile(RfmHeader, << <<d, <<"S","K","U","1">>, <<"W","i","d","g","e","t">>, st, RfmAmount(d), buyer, RfmCusto(d), RfmReceita(d)>> >>)
      : d \in RfmDates, st \in RfmStatuses, buyer \in RfmBuyers }

RfmUploadRuns == UploadRuns({Manager}, {UploadForm(1)}, RfmFiles)

RfmFilters ==
  { Filter(None, None, None, None),
    Filter(Some(Date(2025, 2, 1)), Some(Date(2025, 2, 28)), None, None),
    Filter(None, Some(Date(2025, 1, 31)), Some(1), None),
    Filter(None, None, Some(2), None) }

RfmTodays == {Date(2025, 2, 10), Date(2025, 3, 1)}

NextRfm ==
  \/ Upload(RfmUploadRuns)
  \/ GetKpis(RfmFilters)
  \/ SalesTimeseries(RfmFilters)
  \/ StatusBreakdown(RfmFilters)
  \/ AbcByRevenue(RfmFilters, {[k \in {} |-> 0]})
  \/ CalculateRfmAnalysis(RfmFilters, RfmTodays)
  \/ CohortAnalysis(RfmFilters)
  \/ ShippingPerformance(RfmFilters)
  \/ Return

SpecRfm == Init /\ [][NextRfm]_vars

\* ------------------------------------------------------------------------
\* SpecScore: the scoring loop of calculate_rfm_analysis on populations of
\* buyers drawn from a table of (recency, frequency, monetary) values
\* ------------------------------------------------------------------------
MaxCustomers == 5

CustomerValues ==
  << <<1, 3, 9000>>, <<5, 2, 2500>>, <<30, 1, 1000>>,
     <<1, 1, 1000>>, <<30, 3, 9000>>, <<5, 3, 1000>>,
     <<30, 2, 2500>>, <<1, 2, 9000>>, <<5, 1, 2500>> >>

\* the populations of n buyers, each once whatever the order of the buyers
Populations(n) ==
  { [i \in 1..n |-> [comprador |-> i,
                     recency |-> CustomerValues[p[i]][1],
                     frequency |-> CustomerValues[p[i]][2],
                     monetary |-> CustomerValues[p[i]][3]]]
    : p \in {q \in [1..n -> 1..Len(CustomerValues)] : \A i \in 1..(n - 1) : q[i] <= q[i + 1]} }

InitScore ==
  /\ sales = EmptyBag
  /\ op = "rfm_data"
  /\ args \in UNION {Populations(n) : n \in 1..MaxCustomers}
  /\ ret = <<>>

ScoreCustomers ==
  /\ op = "rfm_data"
  /\ op' = "scored"
  /\ ret' = RfmScored(args)
  /\ UNCHANGED <<sales, args>>

NextScore == ScoreCustomers

SpecScore == InitScore /\ [][NextScore]_vars

\* ------------------------------------------------------------------------
\* Properties.  StatusOf is the normalized status of a stored record, Chosen
\* the records a filter selects, both written from their definition: the
\* date range is inclusive, an absent bound or id does not restrict
\* ------------------------------------------------------------------------
ValidNames == {<<"p","a","g","o">>, <<"e","n","v","i","a","d","o">>, <<"e","n","t","r","e","g","u","e">>}
CancelledName == <<"c","a","n","c","e","l","a","d","o">>
StatusOf(s) == _normalize_status(s.status_pedido)

Chosen(f) ==
  [s \in {x \in BagToSet(sales) :
            /\ (f.start # None => ToOrdinal(f.start[1]) <= ToOrdinal(x.data_venda))
            /\ (f.end # None => ToOrdinal(x.data_venda) <= ToOrdinal(f.end[1]))
            /\ (f.marketplace_id # None => x.marketplace_id = f.marketplace_id[1])
            /\ (f.company_id # None => x.company_id = f.company_id)} |-> sales[s]]

ChosenValid(f) == BagFilter(Chosen(f), LAMBDA s : StatusOf(s) \in ValidNames)
ChosenCancelled(f) == BagFilter(Chosen(f), LAMBDA s : StatusOf(s) = CancelledName)
Amount(B) == BagSum(B, [s \in BagToSet(B) |-> s.valor_total_venda])

\* C1: whatever the stored sales and the filter, get_kpis returns as
\* faturamento the sum of valor_total_venda over exactly the selected records
\* whose normalized status is pago, enviado or entregue, and as
\* pedidos_totais their number; cancelled records and records with an
\* unmapped status add to neither
C1_KpiRevenueAndCount ==
  op = "get_kpis" =>
    /\ ret.faturamento = Amount(ChosenValid(args))
    /\ ret.pedidos_totais = BagCardinality(ChosenValid(args))

\* a call of get_kpis whose filter selects a valid record stored under an
\* alias, a cancelled one and one with an unmapped status
C1_Witness ==
  /\ op = "get_kpis"
  /\ ret.pedidos_totais = 1
  /\ ret.faturamento > 0
  /\ \E s \in BagToSet(ChosenValid(args)) : s.status_pedido \notin ValidNames
  /\ ChosenCancelled(args) # EmptyBag
  /\ \E s \in BagToSet(Chosen(args)) : StatusOf(s) \notin ValidNames \cup {CancelledName}

\* C2: get_kpis returns taxa_cancelamento = cancelled / (valid + cancelled)
\* x 100, rounded to two decimals, and 0 when valid + cancelled is 0;
\* records with an unmapped status are in neither count.  One 'pago' row of
\* 10,50 and one 'cancelado' row of 5,00 ingested from a CSV give revenue
\* 10.50, one order and a rate of 50.0
C2_CancellationRate ==
  op = "get_kpis" =>
    LET valid == BagCardinality(ChosenValid(args))
        cancelled == BagCardinality(ChosenCancelled(args))
    IN  /\ ret.taxa_cancelamento =
             IF valid + cancelled = 0 THEN 0
             ELSE RoundHalfEven(cancelled * 10000, valid + cancelled)
        /\ ( /\ BagCardinality(Chosen(args)) = 2
             /\ \E s \in BagToSet(Chosen(args)) :
                  s.status_pedido = <<"p","a","g","o">> /\ s.valor_total_venda = 1050
             /\ \E s \in BagToSet(Chosen(args)) :
                  s.status_pedido = <<"c","a","n","c","e","l","a","d","o">> /\ s.valor_total_venda = 500 )
           => /\ ret.faturamento = 1050
              /\ ret.pedidos_totais = 1
              /\ ret.taxa_cancelamento = 5000

\* the scenario: the table holds the 'pago' row of 10,50 and the 'cancelado'
\* row of 5,00, and get_kpis is called without a filter
C2_Witness ==
  /\ op = "get_kpis"
  /\ args = Filter(None, None, None, None)
  /\ BagCardinality(sales) = 2
  /\ \E s \in BagToSet(sales) : s.status_pedido = <<"p","a","g","o">> /\ s.valor_total_venda = 1050
  /\ \E s \in BagToSet(sales) : s.status_pedido = <<"c","a","n","c","e","l","a","d","o">> /\ s.valor_total_venda = 500
  /\ ret.taxa_cancelamento = 5000

AbcRevenueUpTo(result, n) == SumSeq([i \in 1..n |-> result[i].faturamento])
AbcTotal(result) == AbcRevenueUpTo(result, Len(result))

\* whether cum / total <= t / 100, for total # 0
RatioAtMost(cum, total, t) ==
  IF total > 0 THEN cum * 100 <= t * total ELSE cum * 100 >= t * total

\* the threshold in force, in hundredths: the caller's when it gives one
ThresholdInForce(thresholds, key) ==
  IF key \in DOMAIN thresholds THEN thresholds[key]
  ELSE IF key = "A" THEN 80 ELSE 95

\* C4: in the list abc_by_revenue returns, a SKU is of class A exactly when
\* the cumulative revenue ratio up to and including it is <= the A threshold
\* (0.80 unless the caller gives one), of class B exactly when that ratio is
\* > the A threshold and <= the B threshold (0.95 unless the caller gives
\* one), and of class C otherwise.  The ratio is that of the entries'
\* revenue to their total, the total being other than zero
C4_AbcClasses ==
  (op = "abc_by_revenue" /\ AbcTotal(ret) # 0) =>
    \A i \in 1..Len(ret) :
      LET cum == AbcRevenueUpTo(ret, i)
          inA == RatioAtMost(cum, AbcTotal(ret), ThresholdInForce(args.thresholds, "A"))
          inB == RatioAtMost(cum, AbcTotal(ret), ThresholdInForce(args.thresholds, "B"))
      IN  /\ ret[i].classe = "A" <=> inA
          /\ ret[i].classe = "B" <=> (~inA /\ inB)
          /\ ret[i].classe = "C" <=> (~inA /\ ~inB)

\* three SKUs whose cumulative ratios are 0.80, 0.95 and 1.00 under the
\* default thresholds: one of each class, two of them on a threshold
C4_Witness ==
  /\ op = "abc_by_revenue"
  /\ DOMAIN args.thresholds = {}
  /\ Len(ret) = 3
  /\ <<ret[1].faturamento, ret[2].faturamento, ret[3].faturamento>> = <<80, 15, 5>>
  /\ <<ret[1].classe, ret[2].classe, ret[3].classe>> = <<"A", "B", "C">>

\* whether the accumulated percentages never decrease along the result
AbcNonDecreasing(result) ==
  \A i \in 1..(Len(result) - 1) :
    RatLE(result[i].percentual_acumulado, result[i + 1].percentual_acumulado)

\* whether the last accumulated percentage is 100
AbcEndsAtHundred(result) ==
  RatEq(result[Len(result)].percentual_acumulado, Rat(100, 1))

\* C5, as stated: whenever the total valid-status revenue is > 0, the
\* percentual_acumulado values never decrease in output order and the last
\* one is 100.00, whatever the stored sales, amounts of zero or below zero
\* included
C5_AsStated ==
  (op = "abc_by_revenue" /\ Len(ret) > 0 /\ AbcTotal(ret) > 0) =>
    AbcNonDecreasing(ret) /\ AbcEndsAtHundred(ret)

\* C5, amended: whenever the total valid-status revenue is > 0 the last
\* percentual_acumulado is 100.00, and the values never decrease in output
\* order provided no SKU has a valid-status revenue below zero
C5_AbcAccumulated ==
  (op = "abc_by_revenue" /\ Len(ret) > 0 /\ AbcTotal(ret) > 0) =>
    /\ AbcEndsAtHundred(ret)
    /\ (\A i \in 1..Len(ret) : ret[i].faturamento >= 0) => AbcNonDecreasing(ret)

\* a result over three SKUs, one of revenue zero, none below zero, whose
\* accumulated percentages go 80/95 of 100, then 100, then 100
C5_Witness ==
  /\ op = "abc_by_revenue"
  /\ Len(ret) = 3
  /\ <<ret[1].faturamento, ret[2].faturamento, ret[3].faturamento>> = <<80, 15, 0>>
  /\ RatEq(ret[1].percentual_acumulado, Rat(8000, 95))
  /\ RatEq(ret[2].percentual_acumulado, Rat(100, 1))
  /\ RatEq(ret[3].percentual_acumulado, Rat(100, 1))

\* C6, as stated: status_breakdown returns exactly one label per distinct
\* normalized status among the selected records, unmapped statuses included,
\* with the number of selected records of that normalized status as its
\* value, the entries in non-increasing order of count; stored statuses that
\* normalize to the same value make one entry
C6_AsStated ==
  op = "status_breakdown" =>
    LET names == {StatusOf(s) : s \in BagToSet(Chosen(args))}
    IN  /\ Len(ret.labels) = Cardinality(names)
        /\ Range(ret.labels) = names
        /\ Len(ret.values) = Len(ret.labels)
        /\ \A i \in 1..Len(ret.labels) :
             ret.values[i] =
               BagCardinality(BagFilter(Chosen(args), LAMBDA s : StatusOf(s) = ret.labels[i]))
        /\ \A i \in 1..(Len(ret.values) - 1) : ret.values[i] >= ret.values[i + 1]

\* the filter of the call in progress
FilterOf == IF op \in {"abc_by_revenue", "calculate_rfm_analysis"} THEN args.filter ELSE args

MetricsOps ==
  {"get_kpis", "sales_timeseries", "status_breakdown", "abc_by_revenue",
   "calculate_rfm_analysis", "cohort_analysis", "shipping_performance"}

C8_AsStated ==
  op = "calculate_rfm_analysis" =>
    LET identified == BagFilter(ChosenValid(args.filter), LAMBDA s : s.comprador # None)
        buyers == {s.comprador[1] : s \in BagToSet(identified)}
        of(b) == BagFilter(identified, LAMBDA s : s.comprador = Some(b))
        latest(b) == CHOOSE d \in {ToOrdinal(s.data_venda) : s \in BagToSet(of(b))} :
                       \A s \in BagToSet(of(b)) : ToOrdinal(s.data_venda) <= d
    IN  /\ Len(ret) = Cardinality(buyers)
        /\ {ret[i].comprador : i \in 1..Len(ret)} = buyers
        /\ \A i \in 1..Len(ret) :
             /\ ret[i].frequency = BagCardinality(of(ret[i].comprador))
             /\ ret[i].monetary = Amount(of(ret[i].comprador))
             /\ args.filter.end # None =>
                  ret[i].recency = ToOrdinal(args.filter.end[1]) - latest(ret[i].comprador)

\* C9: whatever the population of buyers, every buyer gets r_score, f_score
\* and m_score in 1..4; a buyer with the smallest recency, the largest
\* frequency and the largest monetary total of the population scores 4, 4
\* and 4; three buyers whose recencies, frequencies and monetary totals are
\* pairwise distinct get three pairwise different rfm_score strings
C9_QuartileScores ==
  op = "scored" =>
    LET n == Len(ret)
        distinct(field) == \A i, j \in 1..n : i # j => ret[i][field] # ret[j][field]
    IN  /\ n = Len(args) /\ n > 0
        /\ \A i \in 1..n :
             /\ ret[i].r_score \in 1..4
             /\ ret[i].f_score \in 1..4
             /\ ret[i].m_score \in 1..4
        /\ \A i \in 1..n :
             (\A j \in 1..n : /\ ret[i].recency <= ret[j].recency
                              /\ ret[i].frequency >= ret[j].frequency
                              /\ ret[i].monetary >= ret[j].monetary)
             => /\ <<ret[i].r_score, ret[i].f_score, ret[i].m_score>> = <<4, 4, 4>>
                /\ ret[i].rfm_score = <<"4", "4", "4">>
        /\ (n = 3 /\ distinct("recency") /\ distinct("frequency") /\ distinct("monetary"))
           => distinct("rfm_score")

\* three buyers with pairwise distinct values, scored 444, 333 and 222
C9_Witness ==
  /\ op = "scored"
  /\ Len(ret) = 3
  /\ \A i, j \in 1..3 : i # j => /\ ret[i].recency # ret[j].recency
                                 /\ ret[i].frequency # ret[j].frequency
                                 /\ ret[i].monetary # ret[j].monetary
  /\ {ret[i].rfm_score : i \in 1..3} = {<<"4", "4", "4">>, <<"3", "3", "3">>, <<"2", "2", "2">>}

SegmentNames ==
  {"Champions", "Loyal Customers", "New Customers", "Potential Loyalists",
   "At Risk", "Cannot Lose Them", "Lost", "Others"}

\* C10: every scored buyer gets one segment of the rule table, the rules
\* taken in order: r_score = 4 and f_score = 4 gives 'Champions'; r_score <=
\* 2 and f_score >= 3 gives 'At Risk'; r_score = 1 with no earlier rule
\* matching (f_score <= 2) gives 'Lost'; no rule matching (r_score = 2 and
\* f_score <= 2) gives 'Others'
C10_SegmentRules ==
  op = "scored" =>
    \A i \in 1..Len(ret) :
      LET r == ret[i].r_score
          f == ret[i].f_score
      IN  /\ ret[i].segment \in SegmentNames
          /\ (r = 4 /\ f = 4) => ret[i].segment = "Champions"
          /\ (r <= 2 /\ f >= 3) => ret[i].segment = "At Risk"
          /\ (r = 1 /\ f <= 2) => ret[i].segment = "Lost"
          /\ (r = 2 /\ f <= 2) => ret[i].segment = "Others"

\* a population with a 'Champions' buyer, an 'At Risk' buyer of r_score 2
\* and a 'Lost' buyer
C10_Witness ==
  /\ op = "scored"
  /\ \E i \in 1..Len(ret) : ret[i].segment = "Champions"
  /\ \E i \in 1..Len(ret) : ret[i].segment = "At Risk" /\ ret[i].r_score = 2
  /\ \E i \in 1..Len(ret) : ret[i].segment = "Lost" /\ ret[i].f_score <= 2

\* ------------------------------------------------------------------------
\* cohort_analysis
\* ------------------------------------------------------------------------
\* the calendar month of a date, and the months from one month to another
MonthOf(d) == <<d.y, d.m>>
MonthsBetween(a, b) == (b[1] - a[1]) * 12 + (b[2] - a[2])

\* the purchase dates, per identified buyer, of a bag of sales
PurchasesIn(B, b) == {s.data_venda : s \in {x \in BagToSet(B) : x.comprador = Some(b)}}
BuyersIn(B) == {s.comprador[1] : s \in {x \in BagToSet(B) : x.comprador # None}}
FirstMonthIn(B, b) ==
  MonthOf(CHOOSE d \in PurchasesIn(B, b) : \A e \in PurchasesIn(B, b) : DateLE(d, e))

\* the buyers of a cohort with a purchase at a month offset
ActiveAt(B, cohort, offset) ==
  {b \in BuyersIn(B) : /\ FirstMonthIn(B, b) = cohort
                       /\ \E d \in PurchasesIn(B, b) : MonthsBetween(cohort, MonthOf(d)) = offset}

\* C11, as stated: cohort_analysis assigns every identified buyer to exactly
\* one cohort, the calendar month of that buyer's earliest selected purchase
\* of valid status (pago, enviado or entregue once normalized), and the cell
\* [cohort][offset] of retention_matrix is the number of distinct buyers of
\* the cohort with a purchase at that month offset, over the number of
\* distinct buyers of the cohort at offset 0, times 100
C11_AsStated ==
  op = "cohort_analysis" =>
    LET B == ChosenValid(args)
        cohorts == {FirstMonthIn(B, b) : b \in BuyersIn(B)}
        n == Len(ret.cohort_labels)
    IN  /\ {ret.cohort_labels[i] : i \in 1..n} = cohorts
        /\ n = Cardinality(cohorts)
        /\ \A i \in 1..n :
             /\ ret.cohort_sizes[i] = Cardinality(ActiveAt(B, ret.cohort_labels[i], 0))
             /\ \A j \in 1..Len(ret.retention_matrix[i]) :
                  ret.retention_matrix[i][j] * Cardinality(ActiveAt(B, ret.cohort_labels[i], 0))
                    = Cardinality(ActiveAt(B, ret.cohort_labels[i], j - 1)) * 10000

\* C12: in every result of cohort_analysis every reported cohort has a size
\* greater than zero, and each row of retention_matrix whose cohort size is
\* greater than zero holds 100.0 in its cell of offset 0
C12_OffsetZeroIsHundred ==
  op = "cohort_analysis" =>
    /\ Len(ret.cohort_sizes) = Len(ret.retention_matrix)
    /\ \A i \in 1..Len(ret.cohort_sizes) :
         /\ ret.cohort_sizes[i] > 0
         /\ (ret.cohort_sizes[i] > 0 =>
               /\ Len(ret.retention_matrix[i]) >= 1
               /\ ret.retention_matrix[i][1] = 10000)

\* a cohort of two buyers, one of them buying again the month after
C12_Witness ==
  /\ op = "cohort_analysis"
  /\ ret.cohort_sizes = <<2>>
  /\ ret.retention_matrix = << <<10000, 5000>> >>

\* the purchases cohort_analysis reads: the selected sales of an identified
\* buyer stored under pago, enviado or entregue
CohortPurchases(f) ==
  BagFilter(Chosen(f), LAMBDA s : s.comprador # None /\ s.status_pedido \in ValidNames)

\* the largest month offset of a purchase from its buyer's cohort
MaxOffsetIn(B) ==
  LET offsets == {MonthsBetween(FirstMonthIn(B, b), MonthOf(d)) : <<b, d>> \in
                    {<<s.comprador[1], s.data_venda>> : s \in BagToSet(B)}}
  IN  CHOOSE k \in offsets : \A o \in offsets : o <= k

\* C13: retention_matrix is rectangular: it has one row per cohort label and
\* one cohort size per row, every row has as many cells as there are period
\* labels, which is the largest month offset observed over all cohorts plus
\* one, and the cell of an offset at which the cohort has no active buyer
\* holds 0.0
C13_Rectangular ==
  (op = "cohort_analysis" /\ CohortPurchases(args) # EmptyBag) =>
    LET B == CohortPurchases(args)
        n == Len(ret.cohort_labels)
    IN  /\ Len(ret.retention_matrix) = n
        /\ Len(ret.cohort_sizes) = n
        /\ Len(ret.period_labels) = MaxOffsetIn(B) + 1
        /\ \A i \in 1..n :
             /\ Len(ret.retention_matrix[i]) = Len(ret.period_labels)
             /\ \A j \in 1..Len(ret.retention_matrix[i]) :
                  ActiveAt(B, ret.cohort_labels[i], j - 1) = {} => ret.retention_matrix[i][j] = 0

\* two cohorts over two months, the second without a buyer at offset 1
C13_Witness ==
  /\ op = "cohort_analysis"
  /\ ret.cohort_labels = << <<2025, 1>>, <<2025, 2>> >>
  /\ ret.period_labels = <<0, 1>>
  /\ ret.retention_matrix = << <<10000, 10000>>, <<10000, 0>> >>

\* ------------------------------------------------------------------------
\* SpecTwice: a metrics function called twice in a row with the same
\* arguments on the same table.  The table is not written between the two
\* calls, so the database returns the rows of the same query in the same
\* order both times; datetime.now() may give a later day to the second call
\* ------------------------------------------------------------------------
AbcByRevenueTwice(filters, thresholdsSet) ==
  \E f \in filters, thresholds \in thresholdsSet :
    /\ op = "idle"
    /\ op' = "abc_by_revenue_twice"
    /\ args' = [filter |-> f, thresholds |-> thresholds]
    /\ \E rows \in AbcRows(_apply_common_filters(sales, f.start, f.end, f.marketplace_id, f.company_id)) :
         ret' = [first |-> AbcOf(rows, thresholds), second |-> AbcOf(rows, thresholds)]
    /\ UNCHANGED sales

CalculateRfmAnalysisTwice(filters, todays) ==
  \E f \in filters, today1 \in todays, today2 \in todays :
    /\ DateLE(today1, today2)
    /\ op = "idle"
    /\ op' = "calculate_rfm_analysis_twice"
    /\ args' = [filter |-> f, first_today |-> today1, second_today |-> today2]
    /\ \E r1 \in calculate_rfm_analysis(sales, f.start, f.end, f.marketplace_id, today1),
          r2 \in calculate_rfm_analysis(sales, f.start, f.end, f.marketplace_id, today2) :
         /\ [i \in 1..Len(r1) |-> r1[i].comprador] = [i \in 1..Len(r2) |-> r2[i].comprador]
         /\ ret' = [first |-> r1, second |-> r2]
    /\ UNCHANGED sales

CohortAnalysisTwice(filters) ==
  \E f \in filters :
    /\ op = "idle"
    /\ op' = "cohort_analysis_twice"
    /\ args' = [filter |-> f]
    /\ ret' = [first |-> cohort_analysis(sales, f.start, f.end, f.marketplace_id),
               second |-> cohort_analysis(sales, f.start, f.end, f.marketplace_id)]
    /\ UNCHANGED sales

NextTwice ==
  \/ Upload(RfmUploadRuns)
  \/ AbcByRevenueTwice(RfmFilters, {[k \in {} |-> 0]})
  \/ CalculateRfmAnalysisTwice(RfmFilters, RfmTodays)
  \/ CohortAnalysisTwice(RfmFilters)
  \/ Return

SpecTwice == Init /\ [][NextTwice]_vars

TwiceOps == {"abc_by_revenue_twice", "calculate_rfm_analysis_twice", "cohort_analysis_twice"}

\* C14, as stated: abc_by_revenue, calculate_rfm_analysis and cohort_analysis
\* are pure functions of the stored records and the filters: called twice on
\* the same records with the same arguments, the unfiltered call with no
\* start and no end date included, each returns the same output both times,
\* whatever the time of each call
C14_AsStated ==
  op \in TwiceOps => ret.first = ret.second

\* abc_by_revenue and cohort_analysis return the same output both times, and
\* so does calculate_rfm_analysis when the filter has an end date or both
\* calls are made on the same day
C14_ButForTheClock ==
  (op \in {"abc_by_revenue_twice", "cohort_analysis_twice"}
   \/ (op = "calculate_rfm_analysis_twice"
       /\ (args.filter.end # None \/ args.first_today = args.second_today)))
  => ret.first = ret.second

\* ------------------------------------------------------------------------
\* Status normalisation of the marketplace adapters
\* (app/services/marketplace_adapters.py)
\* ------------------------------------------------------------------------
MercadoLivreAdapter_STATUS_MAP ==
  { <<<<"e","n","t","r","e","g","u","e">>, <<"e","n","t","r","e","g","u","e">>>>,
    <<<<"a"," ","c","a","m","i","n","h","o">>, <<"e","n","v","i","a","d","o">>>>,
    <<<<"p","r","e","p","a","r","a","n","d","o">>, <<"p","a","g","o">>>>,
    <<<<"c","a","n","c","e","l","a","d","o">>, <<"c","a","n","c","e","l","a","d","o">>>>,
    <<<<"p","a","c","o","t","e"," ","c","a","n","c","e","l","a","d","o"," ","p","e","l","o"," ","m","e","r","c","a","d","o"," ","l","i","v","r","e">>, <<"c","a","n","c","e","l","a","d","o">>>>,
    <<<<"p","a","g","a","m","e","n","t","o"," ","a","p","r","o","v","a","d","o">>, <<"p","a","g","o">>>>,
    <<<<"p","r","o","n","t","o"," ","p","a","r","a"," ","e","n","v","i","o">>, <<"p","a","g","o">>>>,
    <<<<"e","m"," ","p","r","e","p","a","r","a","ç","ã","o">>, <<"p","a","g","o">>>> }

ShopeeAdapter_STATUS_MAP ==
  { <<<<"c","o","n","c","l","u","í","d","o">>, <<"e","n","t","r","e","g","u","e">>>>,
    <<<<"c","o","n","c","l","u","i","d","o">>, <<"e","n","t","r","e","g","u","e">>>>,
    <<<<"e","m"," ","a","n","d","a","m","e","n","t","o">>, <<"e","n","v","i","a","d","o">>>>,
    <<<<"c","a","n","c","e","l","a","d","o">>, <<"c","a","n","c","e","l","a","d","o">>>>,
    <<<<"a","g","u","a","r","d","a","n","d","o"," ","c","o","l","e","t","a">>, <<"p","a","g","o">>>>,
    <<<<"p","r","o","c","e","s","s","a","n","d","o">>, <<"p","a","g","o">>>>,
    <<<<"e","n","v","i","a","d","o">>, <<"e","n","v","i","a","d","o">>>>,
    <<<<"e","n","t","r","e","g","u","e">>, <<"e","n","t","r","e","g","u","e">>>> }

\* the key both adapters look up: NFKD of status.lower().strip() without its
\* combining marks
AdapterStatusKey(status) == StrUnaccent(StrStrip(StrLower(status)))

\* MercadoLivreAdapter.normalize_status(status), status a str or None
MercadoLivreAdapter_normalize_status(status) ==
  IF status = None THEN <<"p","a","g","o">>
  ELSE Lookup(MercadoLivreAdapter_STATUS_MAP, AdapterStatusKey(status), <<"p","a","g","o">>)

\* ShopeeAdapter.normalize_status(status), status a str or None
ShopeeAdapter_normalize_status(status) ==
  IF status = None THEN <<"p","a","g","o">>
  ELSE Lookup(ShopeeAdapter_STATUS_MAP, AdapterStatusKey(status), <<"p","a","g","o">>)

\* ------------------------------------------------------------------------
\* SpecNorm: a raw status is normalized by an ingestion path, and the
\* stored status by the metrics engine
\* ------------------------------------------------------------------------
RawStatuses ==
  { <<"p","a","g","o">>, <<"E","n","v","i","a","d","o">>, <<"E","N","T","R","E","G","U","E">>, <<"c","a","n","c","e","l","a","d","o">>, <<"C","o","n","c","l","u","í","d","o">>, <<"c","o","n","c","l","u","i","d","a">>,
    <<"F","i","n","a","l","i","z","a","d","o">>, <<"F","i","n","a","l","i","z","a","d","a">>, <<"d","e","l","i","v","e","r","e","d">>, <<"A","p","r","o","v","a","d","o">>, <<"p","a","i","d">>, <<"s","h","i","p","p","e","d">>,
    <<"P","o","s","t","a","d","o">>, <<"d","e","s","p","a","c","h","a","d","o">>, <<"C","a","n","c","e","l","a","d","a">>, <<"c","a","n","c","e","l","e","d">>, <<"A"," ","c","a","m","i","n","h","o">>,
    <<"P","r","e","p","a","r","a","n","d","o">>, <<"P","r","o","n","t","o"," ","p","a","r","a"," ","e","n","v","i","o">>, <<"E","m"," ","p","r","e","p","a","r","a","ç","ã","o">>,
    <<"P","a","c","o","t","e"," ","c","a","n","c","e","l","a","d","o"," ","p","e","l","o"," ","M","e","r","c","a","d","o"," ","L","i","v","r","e">>, <<"P","a","g","a","m","e","n","t","o"," ","a","p","r","o","v","a","d","o">>,
    <<"E","m"," ","a","n","d","a","m","e","n","t","o">>, <<"A","g","u","a","r","d","a","n","d","o"," ","c","o","l","e","t","a">>, <<"P","r","o","c","e","s","s","a","n","d","o">>, <<"D","e","v","o","l","v","i","d","o">>,
    <<"E","m"," ","a","n","á","l","i","s","e">>, <<" ","e","m","-","t","r","a","n","s","i","t","o"," ">>, <<>> }

IngestionPaths == {"upload_submit", "MercadoLivreAdapter", "ShopeeAdapter"}

InitNorm ==
  /\ sales = EmptyBag
  /\ op = "raw_status"
  /\ args \in RawStatuses
  /\ ret = <<>>

\* the status an ingestion path gives to a row; upload_submit refuses the
\* row when normalize_status returns the empty string
IngestStatus ==
  \E path \in IngestionPaths :
    /\ op = "raw_status"
    /\ op' = path
    /\ ret' = CASE path = "upload_submit" ->
                     [accepted |-> normalize_status(args) # <<>>,
                      status_pedido |-> normalize_status(args)]
                [] path = "MercadoLivreAdapter" ->
                     [accepted |-> TRUE,
                      status_pedido |-> MercadoLivreAdapter_normalize_status(args)]
                [] path = "ShopeeAdapter" ->
                     [accepted |-> TRUE,
                      status_pedido |-> ShopeeAdapter_normalize_status(args)]
    /\ UNCHANGED <<sales, args>>

\* the metrics engine normalizes the stored status of an accepted row
ReportStatus ==
  /\ op \in IngestionPaths
  /\ ret.accepted
  /\ op' = "_normalize_status"
  /\ ret' = [path |-> op,
             status_pedido |-> ret.status_pedido,
             reported |-> _normalize_status(ret.status_pedido)]
  /\ UNCHANGED <<sales, args>>

NextNorm == IngestStatus \/ ReportStatus

SpecNorm == InitNorm /\ [][NextNorm]_vars

\* C19, as stated: normalization at ingestion and normalization in the
\* metrics engine use one alias table: upload_submit stores every raw
\* status s as what _normalize_status gives for s, so that _normalize_status
\* returns a stored status unchanged and a record is reported under the
\* status it was ingested under
C19_AsStated ==
  (op = "_normalize_status" /\ ret.path = "upload_submit") =>
    /\ ret.status_pedido = _normalize_status(args)
    /\ ret.reported = ret.status_pedido

CanonicalStatuses == {<<"p","a","g","o">>, <<"e","n","v","i","a","d","o">>, <<"e","n","t","r","e","g","u","e">>, <<"c","a","n","c","e","l","a","d","o">>}

\* a non-empty status that is no canonical status and no alias in any table
NovelStatus(s) ==
  LET keys == {StatusKey(s), AdapterStatusKey(s)}
      aliases == {e[1] : e \in INGEST_STATUS_ALIASES \cup STATUS_ALIASES
                              \cup MercadoLivreAdapter_STATUS_MAP \cup ShopeeAdapter_STATUS_MAP}
  IN  /\ StatusKey(s) # <<>>
      /\ keys \cap (CanonicalStatuses \cup aliases) = {}

\* C18, as stated: in every ingestion path a non-empty status that matches
\* no canonical status and no alias is accepted and stored as its own
\* normalized value, which is none of the four canonical statuses, so that
\* it is reported as a category of its own and counts neither toward revenue
\* nor toward cancellations
C18_AsStated ==
  (op \in IngestionPaths /\ NovelStatus(args)) =>
    /\ ret.accepted
    /\ ret.status_pedido = StatusKey(args)
    /\ ret.status_pedido \notin CanonicalStatuses
    /\ _normalize_status(ret.status_pedido) \notin VALID_STATUSES \cup {CANCELLED_STATUS}

\* ------------------------------------------------------------------------
\* parse_decimal_ptbr (app/services/marketplace_adapters.py)
\* ------------------------------------------------------------------------
\* str.count(c)
CountCh(s, c) == Cardinality({i \in 1..Len(s) : s[i] = c})

\* parse_decimal_ptbr(value), value a str or None; the None it returns is
\* [ok |-> FALSE]
parse_decimal_ptbr(value) ==
  IF value = <<>> THEN [ok |-> FALSE]
  ELSE LET cleaned == ReplaceCh(ReplaceCh(RemoveCurrency(StrStrip(value)), " ", <<>>), "nbsp", <<>>)
           has_comma == CountCh(cleaned, ",") > 0
           has_dot == CountCh(cleaned, ".") > 0
           parts == Split(cleaned, ".")
       IN  IF cleaned = <<>> \/ cleaned = <<"-">> THEN [ok |-> FALSE]
           ELSE IF has_comma /\ has_dot
           THEN DecimalOf(ReplaceCh(ReplaceCh(cleaned, ".", <<>>), ",", <<".">>))
           ELSE IF has_comma
           THEN DecimalOf(ReplaceCh(cleaned, ",", <<".">>))
           ELSE IF has_dot
           THEN IF CountCh(cleaned, ".") > 1
                THEN DecimalOf(ReplaceCh(cleaned, ".", <<>>))
                ELSE IF Len(parts[Len(parts)]) = 3 /\ Len(parts[1]) <= 3
                THEN DecimalOf(ReplaceCh(cleaned, ".", <<>>))
                ELSE DecimalOf(cleaned)
           ELSE DecimalOf(cleaned)

\* ------------------------------------------------------------------------
\* SpecMoney: an amount cell is parsed by one of the two money parsers
\* ------------------------------------------------------------------------
MoneyTexts ==
  { <<"1",".","2","3","4",",","5","6">>, <<"1",",","2","3","4",".","5","6">>, <<"1","2","3","4",".","5","6">>, <<"1","0","0",",","0","0">>, <<"1","2","3","4",",","5","6">>, <<"0",",","5">>,
    <<"1",".","2","3","4">>, <<"1","2",".","3","4">>, <<"1",".","2","3","4",".","5","6","7">>, <<"1",",","2","3","4",",","5","6","7">>, <<"1","2",".","3","4","5",",","6","7">>,
    <<"1","2",",","3","4","5",".","6","7">>, <<"-","5","0",",","2","5">>, <<"a","b","c">>, <<>>, <<"-">>, <<"1","0">>, <<"1",".","2","3","4","5">>,
    <<"1","2",",","5">>, <<"1","2","3","4",".","5","6","7">>, <<"1","2",".","5">>, <<"1","2","3",".","4","5","6">> }

MoneyPrefixes == { <<>>, <<"R","$"," ">>, <<"R", "$", "nbsp">>, <<" ">> }

MoneyStrings == {p \o t : p \in MoneyPrefixes, t \in MoneyTexts}

InitMoney ==
  /\ sales = EmptyBag
  /\ op = "raw_amount"
  /\ args \in MoneyStrings
  /\ ret = <<>>

ParseDecimalPtbrEn ==
  /\ op = "raw_amount"
  /\ op' = "parse_decimal_ptbr_en"
  /\ ret' = parse_decimal_ptbr_en(args)
  /\ UNCHANGED <<sales, args>>

ParseDecimalPtbr ==
  /\ op = "raw_amount"
  /\ op' = "parse_decimal_ptbr"
  /\ ret' = parse_decimal_ptbr(args)
  /\ UNCHANGED <<sales, args>>

NextMoney == ParseDecimalPtbrEn \/ ParseDecimalPtbr

SpecMoney == InitMoney /\ [][NextMoney]_vars

\* the text of an amount without 'R$', spaces and non-breaking spaces
MoneyCleaned(s) == [i \in 1..Len(SelectSeq(s, LAMBDA c : c \notin {" ", "nbsp"})) |->
                      SelectSeq(s, LAMBDA c : c \notin {" ", "nbsp"})[i]]

\* the last position of a character in a text, 0 when it has none
LastOf(s, c) == IF CountCh(s, c) = 0 THEN 0
                ELSE CHOOSE i \in 1..Len(s) : s[i] = c /\ \A j \in (i + 1)..Len(s) : s[j] # c

\* the same number, read from two parse results
SameNumber(r, e) ==
  /\ r.ok = e.ok
  /\ r.ok => LET k == IF r.scale <= e.scale THEN r.scale ELSE e.scale
             IN  r.coef * Pow10(e.scale - k) = e.coef * Pow10(r.scale - k)

\* a parse result is the amount of `cents` hundredths
IsAmount(r, cents) == SameNumber(r, [ok |-> TRUE, coef |-> cents, scale |-> 2])

\* C20, as stated: both money parsers, after stripping 'R$', spaces and
\* non-breaking spaces, take the right-most of ',' and '.' as the decimal
\* separator and the other as thousands separator when both appear, and a
\* lone ',' as the decimal separator; "1.234,56", "1,234.56" and "1234.56"
\* parse to 1234.56 and "R$ 100,00" to 100.00
C20_AsStated ==
  op \in {"parse_decimal_ptbr_en", "parse_decimal_ptbr"} =>
    LET text == MoneyCleaned(RemoveCurrency(args))
        comma == LastOf(text, ",")
        dot == LastOf(text, ".")
        without(c) == SelectSeq(text, LAMBDA x : x # c)
        pointed(s) == [i \in 1..Len(s) |-> IF s[i] = "," THEN "." ELSE s[i]]
    IN  /\ (comma > 0 /\ dot > 0 /\ comma > dot) =>
             SameNumber(ret, DecimalOf(pointed(without("."))))
        /\ (comma > 0 /\ dot > 0 /\ dot > comma) =>
             SameNumber(ret, DecimalOf(without(",")))
        /\ (comma > 0 /\ dot = 0) =>
             SameNumber(ret, DecimalOf(pointed(text)))
        /\ args \in {<<"1",".","2","3","4",",","5","6">>, <<"1",",","2","3","4",".","5","6">>, <<"1","2","3","4",".","5","6">>} => IsAmount(ret, 123456)
        /\ args = <<"R","$"," ","1","0","0",",","0","0">> => IsAmount(ret, 10000)

\* ------------------------------------------------------------------------
\* MercadoLivreAdapter (app/services/marketplace_adapters.py).  A file is
\* [fieldnames, rows] as csv.DictReader reads it: the column names as they
\* are written, each row its cells; a dict `normalized` is a record whose
\* fields are None when the key is missing or holds None.  Of COLUMN_MAP the
\* date, status, SKU, title, buyer, total, product revenue and unit price
\* columns are modelled
\* ------------------------------------------------------------------------
MESES_PT ==
  { <<<<"j","a","n","e","i","r","o">>, 1>>, <<<<"f","e","v","e","r","e","i","r","o">>, 2>>, <<<<"m","a","r","ç","o">>, 3>>, <<<<"a","b","r","i","l">>, 4>>,
    <<<<"m","a","i","o">>, 5>>, <<<<"j","u","n","h","o">>, 6>>, <<<<"j","u","l","h","o">>, 7>>, <<<<"a","g","o","s","t","o">>, 8>>,
    <<<<"s","e","t","e","m","b","r","o">>, 9>>, <<<<"o","u","t","u","b","r","o">>, 10>>, <<<<"n","o","v","e","m","b","r","o">>, 11>>, <<<<"d","e","z","e","m","b","r","o">>, 12>> }

\* str.split(): the words between runs of whitespace
RECURSIVE Words(_)
Words(s) ==
  LET t == LStripSet(s, Whitespace)
  IN  IF t = <<>> THEN <<>>
      ELSE IF \A i \in 1..Len(t) : t[i] \notin Whitespace THEN <<t>>
      ELSE LET k == CHOOSE i \in 1..Len(t) :
                      t[i] \in Whitespace /\ \A j \in 1..(i - 1) : t[j] \notin Whitespace
           IN  <<SubSeq(t, 1, k - 1)>> \o Words(SubSeq(t, k + 1, Len(t)))

\* \w of a regular expression
IsWordCh(c) ==
  c \notin Whitespace \cup {".", ",", "-", "/", ":", ";", "$", "(", ")", "#", "º", "+"}

\* date(year, month, day): ValueError is [ok |-> FALSE]
DateOf(y, m, d) ==
  IF y >= 1 /\ m \in 1..12 /\ d >= 1 /\ d <= DaysInMonth(y, m)
  THEN [ok |-> TRUE, date |-> [y |-> y, m |-> m, d |-> d]]
  ELSE [ok |-> FALSE]

\* re.search(r'(\d{1,2})\s+de\s+(\w+)\s+de\s+(\d{4})', date_str, re.IGNORECASE)
\* and what parse_date makes of the match
VerboseDate(date_str) ==
  LET w == Words(date_str)
      matches(i) ==
        /\ i + 4 <= Len(w)
        /\ w[i][Len(w[i])] \in Digits
        /\ StrLower(w[i + 1]) = <<"d","e">>
        /\ \A k \in 1..Len(w[i + 2]) : IsWordCh(w[i + 2][k])
        /\ StrLower(w[i + 3]) = <<"d","e">>
        /\ Len(w[i + 4]) >= 4
        /\ AllDigits(SubSeq(w[i + 4], 1, 4))
      hits == {i \in 1..Len(w) : matches(i)}
  IN  IF hits = {} THEN [ok |-> FALSE]
      ELSE LET i == CHOOSE h \in hits : \A g \in hits : h <= g
               n == Len(w[i])
               day == IF n >= 2 /\ w[i][n - 1] \in Digits
                      THEN DigitsToInt(SubSeq(w[i], n - 1, n))
                      ELSE DigitsToInt(SubSeq(w[i], n, n))
               month_name == StrUnaccent(StrLower(w[i + 2]))
               month == Lookup(MESES_PT, month_name, 0)
               year == DigitsToInt(SubSeq(w[i + 4], 1, 4))
           IN  IF month = 0 THEN [ok |-> FALSE] ELSE DateOf(year, month, day)

\* MercadoLivreAdapter.parse_date(date_str), date_str a str or None; the
\* None it returns is [ok |-> FALSE]
MercadoLivreAdapter_parse_date(date_str) ==
  IF date_str = None THEN [ok |-> FALSE]
  ELSE LET s == StrStrip(date_str)
           iso_shape == /\ Len(s) >= 10
                        /\ \A i \in {1, 2, 3, 4, 6, 7, 9, 10} : s[i] \in Digits
                        /\ s[5] = "-" /\ s[8] = "-"
           iso == IF iso_shape THEN Strptime(SubSeq(s, 1, 10), "-", TRUE) ELSE [ok |-> FALSE]
       IN  IF iso.ok THEN iso ELSE VerboseDate(s)

\* value.strip() if value else None
StripOrNone(value) ==
  IF value = None \/ value[1] = <<>> THEN None
  ELSE IF StrStrip(value[1]) = <<>> THEN Some(<<>>) ELSE Some(StrStrip(value[1]))

\* a `normalized` value that Python takes as true: not None, not '', not 0
TruthyText(v) == v # None /\ v[1] # <<>>
TruthyDecimal(v) == v # None /\ v[1].coef # 0

\* parse_decimal_ptbr of a cell that may be None: None or Some([coef, scale])
DecimalCell(value) ==
  IF value = None THEN None
  ELSE LET r == parse_decimal_ptbr(value[1])
       IN  IF r.ok THEN Some([coef |-> r.coef, scale |-> r.scale]) ELSE None

\* preco < Decimal(n) and preco <= Decimal(n)
DecimalLT(dec, n) == dec.coef < n * Pow10(dec.scale)
DecimalLE(dec, n) == dec.coef <= n * Pow10(dec.scale)

\* the price tier both adapters compute; None when the key is not set
AdapterFaixaPreco(preco_unitario, valor_total_venda) ==
  LET preco == IF TruthyDecimal(preco_unitario) THEN preco_unitario
               ELSE Some(valor_total_venda)
  IN  IF ~TruthyDecimal(preco) THEN None
      ELSE IF DecimalLT(preco[1], 50) THEN Some("Baixo")
      ELSE IF DecimalLE(preco[1], 200) THEN Some("Médio")
      ELSE Some("Alto")

DecimalZero == [coef |-> 0, scale |-> 0]

\* Decimal arithmetic on [coef, scale]: a + b, a - b and abs(a)
DecimalAdd(a, b) ==
  LET k == IF a.scale >= b.scale THEN a.scale ELSE b.scale
  IN  [coef |-> a.coef * Pow10(k - a.scale) + b.coef * Pow10(k - b.scale), scale |-> k]
DecimalAbs(a) == [coef |-> Abs(a.coef), scale |-> a.scale]
DecimalSub(a, b) == DecimalAdd(a, [coef |-> -b.coef, scale |-> b.scale])

\* (lucro_liquido / receita_produtos) * Decimal(100), the exact quotient
DecimalMargin(lucro_liquido, receita_produtos) ==
  LET k == IF lucro_liquido.scale >= receita_produtos.scale
           THEN lucro_liquido.scale ELSE receita_produtos.scale
  IN  Rat(lucro_liquido.coef * Pow10(k - lucro_liquido.scale) * 100,
          receita_produtos.coef * Pow10(k - receita_produtos.scale))

\* custos of MercadoLivreAdapter.process_row: the sum of abs(normalized[field])
\* over the cost fields that are set and not zero
RECURSIVE AdapterCustos(_)
AdapterCustos(fields) ==
  IF fields = <<>> THEN DecimalZero
  ELSE DecimalAdd(IF TruthyDecimal(Head(fields)) THEN DecimalAbs(Head(fields)[1]) ELSE DecimalZero,
                  AdapterCustos(Tail(fields)))

\* row[ml_col] of a csv.DictReader row, and whether ml_col is one of its keys
HasColumn(file, col) == \E i \in 1..Len(file.fieldnames) : file.fieldnames[i] = col
Cell(file, row, col) == RowGet(file.fieldnames, row, col)

\* MercadoLivreAdapter.process_row(row): [ok |-> FALSE] is its None
MercadoLivreAdapter_process_row(file, row) ==
  LET text(col) == IF HasColumn(file, col) THEN StripOrNone(Cell(file, row, col)) ELSE None
      money(col) == IF HasColumn(file, col) THEN DecimalCell(Cell(file, row, col)) ELSE None
      data_venda == MercadoLivreAdapter_parse_date(
                      LET c == Cell(file, row, "Data da venda") IN IF c = None THEN None ELSE c[1])
      sku == text("SKU")
      titulo_anuncio == text("Título do anúncio")
      total_brl == money("Total (BRL)")
      preco_unitario == money("Preço unitário de venda do anúncio (BRL)")
      valor_total_venda == IF TruthyDecimal(total_brl) THEN total_brl[1] ELSE DecimalZero
      receita_produtos == money("Receita por produtos (BRL)")
      taxa_parcelamento == money("Taxa de parcelamento equivalente ao acréscimo")
      tarifa_venda_impostos == money("Tarifa de venda e impostos (BRL)")
      custo_envio == money("Custo de envio com base nas medidas e peso declarados")
      custo_diferencas_peso == money("Custo por diferenças nas medidas e no peso do pacote")
      cancelamentos_reembolsos == money("Cancelamentos e reembolsos (BRL)")
      has_profit == TruthyDecimal(receita_produtos) /\ receita_produtos[1].coef > 0
      custos == AdapterCustos(<<taxa_parcelamento, tarifa_venda_impostos, custo_envio,
                                custo_diferencas_peso, cancelamentos_reembolsos>>)
      lucro_liquido == DecimalSub(receita_produtos[1], custos)
  IN  IF HasColumn(file, "Data da venda") /\ ~data_venda.ok THEN [ok |-> FALSE]
      ELSE IF ~TruthyText(sku) THEN [ok |-> FALSE]
      ELSE [ok |-> TRUE,
            normalized |->
              [data_venda |-> IF HasColumn(file, "Data da venda") THEN Some(data_venda.date) ELSE None,
               status_pedido |->
                 IF HasColumn(file, "Descrição do status")
                 THEN Some(MercadoLivreAdapter_normalize_status(
                        LET c == Cell(file, row, "Descrição do status")
                        IN  IF c = None THEN None ELSE c[1]))
                 ELSE None,
               sku |-> sku,
               titulo_anuncio |-> titulo_anuncio,
               comprador |-> text("Comprador"),
               total_brl |-> total_brl,
               receita_produtos |-> receita_produtos,
               taxa_parcelamento |-> taxa_parcelamento,
               tarifa_venda_impostos |-> tarifa_venda_impostos,
               custo_envio |-> custo_envio,
               custo_diferencas_peso |-> custo_diferencas_peso,
               cancelamentos_reembolsos |-> cancelamentos_reembolsos,
               preco_unitario |-> preco_unitario,
               nome_produto |-> IF TruthyText(titulo_anuncio) THEN titulo_anuncio ELSE sku,
               valor_total_venda |-> valor_total_venda,
               faixa_preco |-> AdapterFaixaPreco(preco_unitario, valor_total_venda),
               lucro_liquido |-> IF has_profit THEN Some(lucro_liquido) ELSE None,
               margem_percentual |->
                 IF has_profit THEN Some(DecimalMargin(lucro_liquido, receita_produtos[1]))
                 ELSE None]]

\* the loop of parse_file over the rows, line numbers starting at 2
RECURSIVE MercadoLivreAdapter_rows(_, _, _, _)
MercadoLivreAdapter_rows(file, rows, line_num, acc) ==
  IF rows = <<>> THEN acc
  ELSE LET r == MercadoLivreAdapter_process_row(file, Head(rows))
       IN  MercadoLivreAdapter_rows(file, Tail(rows), line_num + 1,
             IF r.ok
             THEN [acc EXCEPT !.parsed_data = Append(@, r.normalized)]
             ELSE [acc EXCEPT !.errors =
                     Append(@, [line |-> line_num,
                                msg |-> "Dados obrigatórios faltando (SKU ou Data)"])])

\* MercadoLivreAdapter.parse_file(raw_bytes): (parsed_data, errors)
MercadoLivreAdapter_parse_file(file) ==
  MercadoLivreAdapter_rows(file, file.rows, 2, [parsed_data |-> <<>>, errors |-> <<>>])

\* ------------------------------------------------------------------------
\* ShopeeAdapter.  A worksheet cell is what openpyxl gives: a str, a number
\* (here an amount in cents), a datetime or None; [kind, s, n, d] holds the
\* kind and the value in the field of its kind
\* ------------------------------------------------------------------------
NoDate == [y |-> 1, m |-> 1, d |-> 1]
StrCell(s) == [kind |-> "str", s |-> s, n |-> 0, d |-> NoDate]
NumCell(n) == [kind |-> "num", s |-> <<>>, n |-> n, d |-> NoDate]
DateCell(d) == [kind |-> "date", s |-> <<>>, n |-> 0, d |-> d]
NoneCell == [kind |-> "none", s |-> <<>>, n |-> 0, d |-> NoDate]

\* bool(value) of a cell
TruthyCell(c) ==
  CASE c.kind = "str" -> c.s # <<>>
    [] c.kind = "num" -> c.n # 0
    [] c.kind = "date" -> TRUE
    [] OTHER -> FALSE

\* datetime.strptime(value, '%Y-%m-%d %H:%M').date()
StrptimeMinutes(value) ==
  LET w == Words(value)
      hm == Split(w[2], ":")
      day == Strptime(w[1], "-", TRUE)
  IN  IF /\ Len(w) = 2
         /\ Len(hm) = 2
         /\ AllDigits(hm[1]) /\ Len(hm[1]) \in {1, 2} /\ DigitsToInt(hm[1]) <= 23
         /\ AllDigits(hm[2]) /\ Len(hm[2]) \in {1, 2} /\ DigitsToInt(hm[2]) <= 59
      THEN day
      ELSE [ok |-> FALSE]

\* ShopeeAdapter.parse_date(date_str); the None it returns is [ok |-> FALSE]
ShopeeAdapter_parse_date(date_str) ==
  IF date_str.kind = "date" THEN [ok |-> TRUE, date |-> date_str.d]
  ELSE IF date_str.kind # "str" \/ date_str.s = <<>> THEN [ok |-> FALSE]
  ELSE LET v == StrStrip(date_str.s)
           minutes == StrptimeMinutes(v)
           iso == Strptime(v, "-", TRUE)
           br  == Strptime(v, "/", FALSE)
           dmy == Strptime(v, "-", FALSE)
       IN  IF minutes.ok THEN minutes
           ELSE IF iso.ok THEN iso
           ELSE IF br.ok THEN br
           ELSE dmy

\* row_dict[shopee_col] and whether shopee_col is one of its keys: the
\* headers zipped with the cells of the row
ShopeeHasColumn(file, row, col) ==
  \E i \in 1..Len(file.headers) : file.headers[i] = col /\ i <= Len(row)
ShopeeCell(file, row, col) ==
  LET cols == {i \in 1..Len(file.headers) : file.headers[i] = col /\ i <= Len(row)}
  IN  row[CHOOSE i \in cols : \A j \in cols : j <= i]

\* the amount columns: a number becomes Decimal(str(value)), a str goes
\* through parse_decimal_ptbr, None stays None
ShopeeDecimal(c) ==
  CASE c.kind = "num" -> Some([coef |-> c.n, scale |-> 2])
    [] c.kind = "str" -> DecimalCell(Some(c.s))
    [] OTHER -> None

\* the other columns: a str is stripped, '' becoming None; any other value
\* is kept as it is
ShopeeText(c) ==
  CASE c.kind = "str" -> IF c.s = <<>> THEN None ELSE Some(StrCell(StrStrip(c.s)))
    [] c.kind = "none" -> None
    [] OTHER -> Some(c)

TruthyValue(v) == v # None /\ TruthyCell(v[1])

\* ShopeeAdapter.process_row(row): kind "none" is its None, kind "raise" the
\* AttributeError of status.lower() on a status that is not a str
ShopeeAdapter_process_row(file, row) ==
  LET has(col) == ShopeeHasColumn(file, row, col)
      text(col) == IF has(col) THEN ShopeeText(ShopeeCell(file, row, col)) ELSE None
      money(col) == IF has(col) THEN ShopeeDecimal(ShopeeCell(file, row, col)) ELSE None
      status_cell == ShopeeCell(file, row, "Status do pedido")
      date_col == "Data de criação do pedido"
      data_venda == ShopeeAdapter_parse_date(ShopeeCell(file, row, date_col))
      sku == text("Nº de referência do SKU principal")
      nome == text("Nome do Produto")
      titulo_anuncio == text("Nome da variação")
      total_brl == money("Total do pedido")
      preco_unitario == money("Preço acordado")
      valor_total_venda == IF TruthyDecimal(total_brl) THEN total_brl[1] ELSE DecimalZero
  IN  IF has("Status do pedido") /\ status_cell.kind \in {"num", "date"} /\ TruthyCell(status_cell)
      THEN [kind |-> "raise"]
      ELSE IF has(date_col) /\ ~data_venda.ok THEN [kind |-> "none"]
      ELSE IF ~TruthyValue(sku) THEN [kind |-> "none"]
      ELSE [kind |-> "record",
            normalized |->
              [data_venda |-> IF has(date_col) THEN Some(data_venda.date) ELSE None,
               status_pedido |->
                 IF has("Status do pedido")
                 THEN Some(ShopeeAdapter_normalize_status(
                        IF status_cell.kind = "str" THEN status_cell.s ELSE None))
                 ELSE None,
               sku |-> sku,
               titulo_anuncio |-> titulo_anuncio,
               total_brl |-> total_brl,
               receita_produtos |-> money("Subtotal do produto"),
               preco_unitario |-> preco_unitario,
               nome_produto |-> IF TruthyValue(nome) THEN nome
                                ELSE IF TruthyValue(titulo_anuncio) THEN titulo_anuncio
                                ELSE sku,
               valor_total_venda |-> valor_total_venda,
               faixa_preco |-> AdapterFaixaPreco(preco_unitario, valor_total_venda)]]

\* the loop of parse_file over the rows of the sheet, from row 2 on
RECURSIVE ShopeeAdapter_rows(_, _, _, _)
ShopeeAdapter_rows(file, rows, row_num, acc) ==
  IF rows = <<>> THEN acc
  ELSE LET r == ShopeeAdapter_process_row(file, Head(rows))
       IN  ShopeeAdapter_rows(file, Tail(rows), row_num + 1,
             CASE r.kind = "record" ->
                    [acc EXCEPT !.parsed_data = Append(@, r.normalized)]
               [] r.kind = "none" ->
                    [acc EXCEPT !.errors =
                       Append(@, [line |-> row_num,
                                  msg |-> "Dados obrigatórios faltando (SKU ou Data)"])]
               [] r.kind = "raise" ->
                    [acc EXCEPT !.errors =
                       Append(@, [line |-> row_num, msg |-> "Erro ao processar"])])

\* ShopeeAdapter.parse_file(raw_bytes): (parsed_data, errors)
ShopeeAdapter_parse_file(file) ==
  ShopeeAdapter_rows(file, file.rows, 2, [parsed_data |-> <<>>, errors |-> <<>>])

\* ------------------------------------------------------------------------
\* SpecIngest: files with complete and incomplete headers, with valid and
\* defective rows, through upload_submit and through the parse_file of the
\* two marketplace adapters
\* ------------------------------------------------------------------------
\* a sequence without its k-th element
Without(s, k) == SubSeq(s, 1, k - 1) \o SubSeq(s, k + 1, Len(s))

\* the columns of the uploaded CSV files: date, SKU, name, status, amount
IngestHeader == <<<<"D","a","t","a">>, <<"S","K","U">>, <<"P","r","o","d","u","t","o">>, <<"S","t","a","t","u","s">>, <<"V","a","l","o","r">>>>

IngestHeaders ==
  {IngestHeader, <<<<"f","o","o">>, <<"b","a","r">>>>, <<>>} \cup {Without(IngestHeader, k) : k \in 1..5}

IngestRowKinds ==
  { <<<<"2","0","2","5","-","0","1","-","0","5">>, <<"S","K","U","1">>, <<"W","i","d","g","e","t">>, <<"p","a","g","o">>, <<"1","0",",","5","0">>>>,
    <<<<"0","5","/","0","2","/","2","0","2","5">>, <<"S","K","U","1">>, <<"W","i","d","g","e","t">>, <<"D","e","v","o","l","v","i","d","o">>, <<"1",".","2","3","4",",","5","6">>>>,
    <<<<"3","1","/","1","3","/","2","0","2","5">>, <<"S","K","U","1">>, <<"W","i","d","g","e","t">>, <<"p","a","g","o">>, <<"1","0",",","5","0">>>>,
    <<<<"2","0","2","5","-","0","1","-","0","5">>, <<"S","K","U","1">>, <<"W","i","d","g","e","t">>, <<"p","a","g","o">>, <<"a","b","c">>>>,
    <<<<"2","0","2","5","-","0","1","-","0","5">>, <<>>, <<"W","i","d","g","e","t">>, <<"p","a","g","o">>, <<"1","0",",","5","0">>>>,
    <<<<"2","0","2","5","-","0","1","-","0","5">>, <<"S","K","U","1">>, <<>>, <<"p","a","g","o">>, <<"1","0",",","5","0">>>>,
    <<<<"2","0","2","5","-","0","1","-","0","5">>, <<"S","K","U","1">>, <<"W","i","d","g","e","t">>, <<>>, <<"1","0",",","5","0">>>> }

\* the files of up to two rows over a set of row kinds
RowsUpToTwo(kinds) == {<<>>} \cup {<<a>> : a \in kinds} \cup {<<a, b>> : a \in kinds, b \in kinds}

\* the cells of a row under the columns a header keeps
Project(full, header, row) ==
  LET keep == {i \in 1..Len(full) : \E j \in 1..Len(header) : header[j] = full[i]}
      idx == SortInts(SetToSeq(keep))
  IN  IF keep = {} THEN [i \in 1..Len(header) |-> <<"x">>]
      ELSE [i \in 1..Len(idx) |-> row[idx[i]]]

IngestFiles ==
  { CsvFile(h, [i \in 1..Len(rows) |-> Project(IngestHeader, h, rows[i])])
      : h \in IngestHeaders, rows \in RowsUpToTwo(IngestRowKinds) }

IngestRuns ==
  { [current_user |-> u, form |-> UploadForm(1), file |-> file,
     r |-> upload_submit(u, UploadForm(1), Some(file))]
      : u \in Users, file \in IngestFiles }

\* upload_submit, the uploaded file kept with the request
UploadKeepingFile(runs) ==
  \E run \in runs :
    /\ op = "idle"
    /\ BagCardinality(sales) + Len(run.r.sales_to_insert) <= MaxSales
    /\ sales' = sales (+) SeqToBag(run.r.sales_to_insert)
    /\ op' = "upload_submit"
    /\ args' = [current_user |-> run.current_user, form |-> run.form, file |-> run.file]
    /\ ret' = [k \in DOMAIN run.r \ {"sales_to_insert"} |-> run.r[k]]

\* the Mercado Livre reports: date, status, SKU, title, total
MlHeader == <<"Data da venda", "Descrição do status", "SKU", "Título do anúncio", "Total (BRL)">>

MlHeaders == {MlHeader, Without(MlHeader, 1), Without(MlHeader, 2), Without(MlHeader, 5)}

MlRowKinds ==
  { <<<<"0","5"," ","d","e"," ","j","a","n","e","i","r","o"," ","d","e"," ","2","0","2","5"," ","1","0",":","3","0"," ","h","s",".">>, <<"E","n","t","r","e","g","u","e">>, <<"S","K","U","1">>, <<"W","i","d","g","e","t">>, <<"1",".","2","3","4",",","5","6">>>>,
    <<<<"2","0","2","5","-","0","2","-","1","0">>, <<"D","e","v","o","l","v","i","d","o">>, <<"S","K","U","2">>, <<>>, <<"R","$"," ","9","9",",","9","0">>>>,
    <<<<"3","1","/","1","3","/","2","0","2","5">>, <<"E","n","t","r","e","g","u","e">>, <<"S","K","U","1">>, <<"W","i","d","g","e","t">>, <<"1","0",",","5","0">>>>,
    <<<<"2","0","2","5","-","0","2","-","1","0">>, <<"E","n","t","r","e","g","u","e">>, <<"S","K","U","1">>, <<"W","i","d","g","e","t">>, <<"a","b","c">>>>,
    <<<<"2","0","2","5","-","0","2","-","1","0">>, <<"E","n","t","r","e","g","u","e">>, <<>>, <<"W","i","d","g","e","t">>, <<"1","0",",","5","0">>>>,
    <<<<"2","0","2","5","-","0","2","-","1","0">>, <<>>, <<"S","K","U","1">>, <<"W","i","d","g","e","t">>, <<"1","0",",","5","0">>>>,
    <<<<"2","0","2","5","-","0","2","-","1","0">>, <<"A"," ","c","a","m","i","n","h","o">>, <<"S","K","U","1">>, <<"W","i","d","g","e","t">>, <<>>>> }

MlFiles ==
  { [fieldnames |-> h, rows |-> [i \in 1..Len(rows) |-> Project(MlHeader, h, rows[i])]]
      : h \in MlHeaders, rows \in RowsUpToTwo(MlRowKinds) }

MlRuns == {[file |-> file, r |-> MercadoLivreAdapter_parse_file(file)] : file \in MlFiles}

MercadoLivreParseFile(runs) ==
  \E run \in runs :
    /\ op = "idle"
    /\ op' = "MercadoLivreAdapter.parse_file"
    /\ args' = [file |-> run.file]
    /\ ret' = run.r
    /\ UNCHANGED sales

\* the Shopee worksheets: date, status, SKU, name, total
ShopeeHeader ==
  <<"Data de criação do pedido", "Status do pedido", "Nº de referência do SKU principal",
    "Nome do Produto", "Total do pedido">>

ShopeeHeaders == {ShopeeHeader, Without(ShopeeHeader, 1), Without(ShopeeHeader, 2)}

ShopeeRowKinds ==
  { <<StrCell(<<"2","0","2","5","-","0","1","-","0","5"," ","0","0",":","3","0">>), StrCell(<<"C","o","n","c","l","u","í","d","o">>), StrCell(<<"S","K","U","1">>), StrCell(<<"W","i","d","g","e","t">>), NumCell(12345)>>,
    <<DateCell([y |-> 2025, m |-> 2, d |-> 10]), StrCell(<<"D","e","v","o","l","v","i","d","o">>), NumCell(777), NoneCell, StrCell(<<"9","9",",","9","0">>)>>,
    <<StrCell(<<"3","1","/","1","3","/","2","0","2","5">>), StrCell(<<"E","n","v","i","a","d","o">>), StrCell(<<"S","K","U","1">>), StrCell(<<"W","i","d","g","e","t">>), NumCell(1050)>>,
    <<StrCell(<<"1","0","/","0","2","/","2","0","2","5">>), StrCell(<<"E","n","v","i","a","d","o">>), StrCell(<<"S","K","U","1">>), StrCell(<<"W","i","d","g","e","t">>), StrCell(<<"a","b","c">>)>>,
    <<StrCell(<<"1","0","/","0","2","/","2","0","2","5">>), StrCell(<<"E","n","v","i","a","d","o">>), NoneCell, StrCell(<<"W","i","d","g","e","t">>), NumCell(1050)>>,
    <<StrCell(<<"1","0","/","0","2","/","2","0","2","5">>), NoneCell, StrCell(<<"S","K","U","1">>), StrCell(<<"W","i","d","g","e","t">>), NumCell(1050)>>,
    <<StrCell(<<"1","0","/","0","2","/","2","0","2","5">>), NumCell(3), StrCell(<<"S","K","U","1">>), StrCell(<<"W","i","d","g","e","t">>), NumCell(1050)>>,
    <<StrCell(<<"1","0","/","0","2","/","2","0","2","5">>), StrCell(<<"C","a","n","c","e","l","a","d","o">>), StrCell(<<"S","K","U","1">>), StrCell(<<"W","i","d","g","e","t">>), NoneCell>> }

ShopeeFiles ==
  { [headers |-> h, rows |-> [i \in 1..Len(rows) |-> Project(ShopeeHeader, h, rows[i])]]
      : h \in ShopeeHeaders, rows \in RowsUpToTwo(ShopeeRowKinds) }

ShopeeRuns == {[file |-> file, r |-> ShopeeAdapter_parse_file(file)] : file \in ShopeeFiles}

ShopeeParseFile(runs) ==
  \E run \in runs :
    /\ op = "idle"
    /\ op' = "ShopeeAdapter.parse_file"
    /\ args' = [file |-> run.file]
    /\ ret' = run.r
    /\ UNCHANGED sales

NextIngest ==
  \/ UploadKeepingFile(IngestRuns)
  \/ MercadoLivreParseFile(MlRuns)
  \/ ShopeeParseFile(ShopeeRuns)
  \/ Return

SpecIngest == Init /\ [][NextIngest]_vars

\* ------------------------------------------------------------------------
\* Properties of ingestion
\* ------------------------------------------------------------------------
MalformedDates == {<<"3","1","/","1","3","/","2","0","2","5">>}
MalformedAmounts == {<<"a","b","c">>}

\* the text of the cell of a row under a column name, empty when the file
\* has no such column
TextUnder(names, row, name) ==
  IF \E i \in 1..Len(names) : names[i] = name /\ i <= Len(row)
  THEN row[CHOOSE i \in 1..Len(names) : names[i] = name /\ i <= Len(row)]
  ELSE <<>>

\* a row with a malformed date, a malformed amount or an empty required
\* field, the fields given by the names of their columns
DefectiveRow(names, row, date, amount, required) ==
  \/ TextUnder(names, row, date) \in MalformedDates
  \/ TextUnder(names, row, amount) \in MalformedAmounts
  \/ \E name \in required : TextUnder(names, row, name) = <<>>

\* the text of a worksheet cell; a cell that holds no text is empty unless
\* the column takes its native value
SheetText(c, native) ==
  IF c.kind = "str" THEN c.s
  ELSE IF c.kind \in native THEN <<"x">>
  ELSE <<>>

\* the rows of a file are accounted for: one error per defective line, and
\* every other row a record
Accounted(defective, rows, errors, records) ==
  /\ Len(errors) = Cardinality(defective)
  /\ {errors[i].line : i \in 1..Len(errors)} = defective
  /\ records = rows - Cardinality(defective)

\* C15, as stated: in upload_submit, MercadoLivreAdapter.parse_file and
\* ShopeeAdapter.parse_file a data row with a malformed date, a malformed
\* amount or a missing required field is skipped and gives one error message
\* naming its line number, the header being line 1, and every other row of
\* the file is imported or returned
C15_AsStated ==
  /\ (op = "upload_submit" /\ ret.outcome = "summary") =>
       LET file == args.file
           defective == {i + 1 : i \in {k \in 1..Len(file.rows) :
                           DefectiveRow(file.fieldnames, file.rows[k], <<"D","a","t","a">>, <<"V","a","l","o","r">>,
                                        {<<"D","a","t","a">>, <<"S","K","U">>, <<"P","r","o","d","u","t","o">>, <<"S","t","a","t","u","s">>, <<"V","a","l","o","r">>})}}
       IN  Accounted(defective, Len(file.rows), ret.errors, ret.imported_count)
  /\ op = "MercadoLivreAdapter.parse_file" =>
       LET file == args.file
           defective == {i + 1 : i \in {k \in 1..Len(file.rows) :
                           DefectiveRow(file.fieldnames, file.rows[k], "Data da venda", "Total (BRL)",
                                        {"Data da venda", "Descrição do status", "SKU", "Total (BRL)"})}}
       IN  Accounted(defective, Len(file.rows), ret.errors, Len(ret.parsed_data))
  /\ op = "ShopeeAdapter.parse_file" =>
       LET file == args.file
           text(k) == [j \in 1..Len(file.rows[k]) |->
                         SheetText(file.rows[k][j],
                                   IF file.headers[j] = "Status do pedido" THEN {}
                                   ELSE {"num", "date"})]
           defective == {i + 1 : i \in {k \in 1..Len(file.rows) :
                           DefectiveRow(file.headers, text(k), "Data de criação do pedido",
                                        "Total do pedido",
                                        {"Data de criação do pedido", "Status do pedido",
                                         "Nº de referência do SKU principal", "Total do pedido"})}}
       IN  Accounted(defective, Len(file.rows), ret.errors, Len(ret.parsed_data))

\* the required canonical fields for which a header has no column
UnmappedRequired(fieldnames) ==
  {f \in {<<"n","o","m","e","_","p","r","o","d","u","t","o">>, <<"s","k","u">>, <<"s","t","a","t","u","s","_","p","e","d","i","d","o">>, <<"d","a","t","a","_","v","e","n","d","a">>, <<"v","a","l","o","r","_","t","o","t","a","l","_","v","e","n","d","a">>} :
     \A i \in 1..Len(fieldnames) : map_header(normalize_header(fieldnames[i])) # Some(f)}

\* C16: an upload by a manager of a CSV file that has a header fails as a
\* whole if and only if at least one of nome_produto, sku, status_pedido,
\* data_venda and valor_total_venda has no mapped source column; then no row
\* is processed and no Sale is persisted, and the response names the missing
\* columns and carries no import summary, unlike the response to a file of
\* which no row was imported, which carries the summary and the row errors
C16_MissingColumnsFailTheFile ==
  [][ (op' = "upload_submit" /\ is_manager(args'.current_user)
       /\ args'.file.fieldnames # <<>>) =>
        LET missing == UnmappedRequired(args'.file.fieldnames)
        IN  /\ (ret'.outcome = "missing_columns") <=> (missing # {})
            /\ missing # {} =>
                 /\ sales' = sales
                 /\ DOMAIN ret' = {"outcome", "missing_columns"}
                 /\ ret'.missing_columns = missing
            /\ missing = {} =>
                 /\ ret'.outcome = "summary"
                 /\ ret'.total_rows = Len(args'.file.rows)
                 /\ Len(ret'.errors) = ret'.total_rows - ret'.imported_count
                 /\ BagCardinality(sales') = BagCardinality(sales) + ret'.imported_count
    ]_vars

\* a file of two rows whose header has no status column, uploaded to a table
\* that holds a sale, and refused
C16_Witness ==
  /\ op = "upload_submit"
  /\ is_manager(args.current_user)
  /\ ret.outcome = "missing_columns"
  /\ ret.missing_columns = {<<"s","t","a","t","u","s","_","p","e","d","i","d","o">>}
  /\ Len(args.file.rows) = 2
  /\ BagCardinality(sales) = 1

\* the sale date of a record is a date of the calendar
IsDate(d) == d.m \in 1..12 /\ d.d \in 1..DaysInMonth(d.y, d.m)

\* C17, as stated: every record an ingestion path produces, whatever the
\* file and its columns, has a non-empty sku, a non-empty product name, an
\* order status, a sale date and an amount, and a row that lacks one of them
\* never becomes a record
C17_AsStated ==
  /\ \A s \in BagToSet(sales) :
       /\ s.sku # <<>> /\ s.nome_produto # <<>> /\ s.status_pedido # <<>>
       /\ IsDate(s.data_venda)
  /\ (op = "upload_submit" /\ ret.outcome = "summary") =>
       ret.imported_count <=
         Cardinality({k \in 1..Len(args.file.rows) :
            \A name \in {<<"D","a","t","a">>, <<"S","K","U">>, <<"P","r","o","d","u","t","o">>, <<"S","t","a","t","u","s">>, <<"V","a","l","o","r">>} :
               TextUnder(args.file.fieldnames, args.file.rows[k], name) # <<>>})
  /\ op = "MercadoLivreAdapter.parse_file" =>
       \A i \in 1..Len(ret.parsed_data) :
         LET r == ret.parsed_data[i]
         IN  /\ TruthyText(r.sku)
             /\ TruthyText(r.nome_produto)
             /\ r.status_pedido # None
             /\ r.data_venda # None
             /\ r.total_brl # None
  /\ op = "ShopeeAdapter.parse_file" =>
       \A i \in 1..Len(ret.parsed_data) :
         LET r == ret.parsed_data[i]
         IN  /\ TruthyValue(r.sku)
             /\ TruthyValue(r.nome_produto)
             /\ r.status_pedido # None
             /\ r.data_venda # None
             /\ r.total_brl # None

\* ------------------------------------------------------------------------
\* Properties of the money parsers on a text with '.' and no ','
\* ------------------------------------------------------------------------
\* the dots of a text behave as 3-digit grouping: more than one '.', or
\* exactly three characters after the last '.' with at most three before the
\* first one
DotsAreGrouping(text) ==
  LET parts == Split(text, ".")
  IN  \/ CountCh(text, ".") > 1
      \/ Len(parts[Len(parts)]) = 3 /\ Len(parts[1]) <= 3

\* C21, as stated: for a money string containing '.' and no ',', both money
\* parsers treat the dot as the decimal separator unless it behaves as
\* 3-digit grouping, in which case the dots are removed as thousands
\* separators; "1.234.567" parses to 1234567 and "12.5" to 12.5; a string
\* that is empty after cleaning is a parse failure
C21_AsStated ==
  op \in {"parse_decimal_ptbr_en", "parse_decimal_ptbr"} =>
    LET text == MoneyCleaned(RemoveCurrency(args))
        without(c) == SelectSeq(text, LAMBDA x : x # c)
    IN  /\ (CountCh(text, ".") > 0 /\ CountCh(text, ",") = 0) =>
             SameNumber(ret, IF DotsAreGrouping(text) THEN DecimalOf(without("."))
                             ELSE DecimalOf(text))
        /\ args = <<"1",".","2","3","4",".","5","6","7">> => SameNumber(ret, [ok |-> TRUE, coef |-> 1234567, scale |-> 0])
        /\ args = <<"1","2",".","5">> => SameNumber(ret, [ok |-> TRUE, coef |-> 125, scale |-> 1])
        /\ text = <<>> => ~ret.ok

\* ------------------------------------------------------------------------
\* SpecFinance: one-row files with unit price, product revenue and cost
\* columns, through upload_submit and through the parse_file of the two
\* marketplace adapters
\* ------------------------------------------------------------------------
\* the amounts of a row: total, unit price, product revenue, instalment fee,
\* shipping cost, refunds
FinanceRows ==
  { <<<<"1","0","0",",","0","0">>, <<"4","0",",","0","0">>, <<"1","0",",","0","0">>, <<"-","0",",","5","0">>, <<"1",",","0","0">>, <<>>>>,
    <<<<"3","0","0",",","0","0">>, <<"0",",","0","0">>, <<"0",",","0","0">>, <<>>, <<"1",",","0","0">>, <<>>>>,
    <<<<"3","0","0",",","0","0">>, <<>>, <<"-","5",",","0","0">>, <<"-","0",",","5","0">>, <<>>, <<"0",",","2","5">>>>,
    <<<<"5","0",",","0","0">>, <<"2","0","0",",","0","0">>, <<>>, <<"1",",","0","0">>, <<>>, <<>>>>,
    <<<<"0",",","0","0">>, <<>>, <<"3",",","0","0">>, <<>>, <<>>, <<>>>>,
    <<<<"2","0","0",",","0","1">>, <<"5","0",",","0","0">>, <<"1",",","0","0">>, <<"2",",","0","0">>, <<>>, <<>>>>,
    <<<<"4","9",",","9","9">>, <<>>, <<>>, <<>>, <<>>, <<>>>>,
    <<<<"2","0","0",",","0","1">>, <<>>, <<"1","0",",","0","0">>, <<"0">>, <<"0",",","0","0">>, <<"0">>>> }

FinanceUploadHeader ==
  <<<<"D","a","t","a">>, <<"S","K","U">>, <<"P","r","o","d","u","t","o">>, <<"S","t","a","t","u","s">>, <<"V","a","l","o","r">>, <<"P","r","e","ç","o"," ","u","n","i","t","á","r","i","o">>, <<"R","e","c","e","i","t","a"," ","P","r","o","d","u","t","o","s">>,
    <<"T","a","x","a"," ","d","e"," ","p","a","r","c","e","l","a","m","e","n","t","o">>, <<"C","u","s","t","o"," ","d","e"," ","e","n","v","i","o">>, <<"R","e","e","m","b","o","l","s","o","s">>>>

FinanceUploadFiles ==
  { CsvFile(FinanceUploadHeader, << <<<<"2","0","2","5","-","0","1","-","0","5">>, <<"S","K","U","1">>, <<"W","i","d","g","e","t">>, <<"p","a","g","o">>>> \o r >>)
      : r \in FinanceRows }

FinanceUploadRuns ==
  { [current_user |-> Manager, form |-> UploadForm(1), file |-> file,
     r |-> upload_submit(Manager, UploadForm(1), Some(file))]
      : file \in FinanceUploadFiles }

FinanceMlHeader ==
  <<"Data da venda", "SKU", "Total (BRL)", "Preço unitário de venda do anúncio (BRL)",
    "Receita por produtos (BRL)", "Taxa de parcelamento equivalente ao acréscimo",
    "Custo de envio com base nas medidas e peso declarados",
    "Cancelamentos e reembolsos (BRL)">>

FinanceMlRuns ==
  { [file |-> file, r |-> MercadoLivreAdapter_parse_file(file)]
      : file \in { [fieldnames |-> FinanceMlHeader,
                    rows |-> << <<<<"2","0","2","5","-","0","1","-","0","5">>, <<"S","K","U","1">>>> \o r >>] : r \in FinanceRows } }

\* the Shopee sheets hold the total, the unit price and the product subtotal,
\* as text or as numbers
FinanceShopeeHeader ==
  <<"Data de criação do pedido", "Nº de referência do SKU principal", "Total do pedido",
    "Preço acordado", "Subtotal do produto">>

FinanceShopeeCell(text, native) ==
  IF text = <<>> THEN NoneCell
  ELSE IF native /\ parse_decimal_ptbr(text).ok /\ parse_decimal_ptbr(text).scale = 2
       THEN NumCell(parse_decimal_ptbr(text).coef)
  ELSE StrCell(text)

FinanceShopeeRuns ==
  { [file |-> file, r |-> ShopeeAdapter_parse_file(file)]
      : file \in { [headers |-> FinanceShopeeHeader,
                    rows |-> << <<StrCell(<<"2","0","2","5","-","0","1","-","0","5">>), StrCell(<<"S","K","U","1">>),
                                  FinanceShopeeCell(r[1], native), FinanceShopeeCell(r[2], native),
                                  FinanceShopeeCell(r[3], native)>> >>]
                     : r \in FinanceRows, native \in BOOLEAN } }

NextFinance ==
  \/ UploadKeepingFile(FinanceUploadRuns)
  \/ MercadoLivreParseFile(FinanceMlRuns)
  \/ ShopeeParseFile(FinanceShopeeRuns)
  \/ Return

SpecFinance == Init /\ [][NextFinance]_vars

\* ------------------------------------------------------------------------
\* Properties of the derived fields of a record
\* ------------------------------------------------------------------------
AdapterOps == {"MercadoLivreAdapter.parse_file", "ShopeeAdapter.parse_file"}

\* the tier of a reference price in cents
TierOf(cents) ==
  IF cents < 5000 THEN "Baixo" ELSE IF cents <= 20000 THEN "Médio" ELSE "Alto"

\* a Decimal of at most two decimal places, in cents
CentsOf(dec) == dec.coef * Pow10(2 - dec.scale)

\* the reference price of a record in cents: the unit price when the record
\* has one, the gross amount otherwise
ReferencePrice(preco_unitario, valor_total_venda) ==
  IF preco_unitario # None THEN preco_unitario[1] ELSE valor_total_venda

\* C22, as stated: in every ingestion path a record's price tier is Baixo
\* iff its reference price is < 50, Médio iff 50 <= reference price <= 200
\* and Alto iff reference price > 200, the reference price being the unit
\* price when a unit price is present (a unit price of 0 included) and the
\* gross amount otherwise
C22_AsStated ==
  /\ op = "upload_submit" =>
       \A s \in BagToSet(sales) :
         s.faixa_preco = Some(TierOf(ReferencePrice(s.preco_unitario, s.valor_total_venda)))
  /\ op \in AdapterOps =>
       \A i \in 1..Len(ret.parsed_data) :
         LET n == ret.parsed_data[i]
         IN  n.faixa_preco =
               Some(TierOf(ReferencePrice(
                      IF n.preco_unitario = None THEN None ELSE Some(CentsOf(n.preco_unitario[1])),
                      CentsOf(n.valor_total_venda))))

\* the value of a key of a dict `normalized`, None when the key is not set
DictGet(normalized, key) ==
  IF key \in DOMAIN normalized THEN normalized[key] ELSE None

\* an Optional[Decimal] of at most two decimal places as Optional cents
OptionalCents(v) == IF v = None THEN None ELSE Some(CentsOf(v[1]))

\* net profit and margin as stated, from the product revenue and the cost
\* components in cents (None when absent)
ProfitAsStated(receita, costs, lucro_liquido, margem_percentual) ==
  LET cost(i) == IF costs[i] = None THEN 0 ELSE Abs(costs[i][1])
      net == receita[1] - SumSeq([i \in 1..Len(costs) |-> cost(i)])
  IN  IF receita # None /\ receita[1] # 0
      THEN /\ lucro_liquido = Some(net)
           /\ margem_percentual # None
           /\ RatEq(margem_percentual[1], Rat(net * 100, receita[1]))
      ELSE lucro_liquido = None /\ margem_percentual = None

CostFields ==
  <<"taxa_parcelamento", "tarifa_venda_impostos", "custo_envio", "custo_diferencas_peso",
    "cancelamentos_reembolsos">>

\* C23, as stated: in every ingestion path (generic upload, Mercado Livre
\* adapter, Shopee adapter) a record whose product revenue is present and
\* not zero, positive or negative, gets net_profit = product_revenue minus
\* the sum of the absolute values of its cost components and margin_percent =
\* net_profit / product_revenue x 100; a record whose product revenue is
\* absent or zero gets both as None
C23_AsStated ==
  /\ op = "upload_submit" =>
       \A s \in BagToSet(sales) :
         ProfitAsStated(s.receita_produtos, [i \in 1..5 |-> s[CostFields[i]]],
                        s.lucro_liquido, s.margem_percentual)
  /\ op \in AdapterOps =>
       \A k \in 1..Len(ret.parsed_data) :
         LET n == ret.parsed_data[k]
         IN  ProfitAsStated(OptionalCents(n.receita_produtos),
                            [i \in 1..5 |-> OptionalCents(DictGet(n, CostFields[i]))],
                            OptionalCents(DictGet(n, "lucro_liquido")),
                            DictGet(n, "margem_percentual"))

\* ------------------------------------------------------------------------
\* Format detection (app/services/marketplace_adapters.py)
\* ------------------------------------------------------------------------
ml_indicators == <<"N.º de venda", "Tarifa de venda e impostos", "# de anúncio">>
shopee_indicators == <<"ID do pedido", "Nº de referência do SKU principal", "Status do pedido">>

\* sum(1 for h in indicators if h in headers)
IndicatorsIn(indicators, headers) ==
  Cardinality({i \in 1..Len(indicators) :
                 \E j \in 1..Len(headers) : headers[j] = indicators[i]})

\* MercadoLivreAdapter.detect(headers) and ShopeeAdapter.detect(headers)
MercadoLivreAdapter_detect(headers) == IndicatorsIn(ml_indicators, headers) >= 2
ShopeeAdapter_detect(headers) == IndicatorsIn(shopee_indicators, headers) >= 2

\* detect_marketplace if it asked the Shopee adapter first
detect_marketplace_shopee_first(headers) ==
  IF ShopeeAdapter_detect(headers) THEN Some("shopee")
  ELSE IF MercadoLivreAdapter_detect(headers) THEN Some("mercado_livre")
  ELSE None

\* detect_marketplace(headers): Some of 'mercado_livre' or 'shopee', or None
detect_marketplace(headers) ==
  IF MercadoLivreAdapter_detect(headers) THEN Some("mercado_livre")
  ELSE IF ShopeeAdapter_detect(headers) THEN Some("shopee")
  ELSE None

\* ------------------------------------------------------------------------
\* SpecDetect: a header list is given to the detect of each adapter and to
\* detect_marketplace
\* ------------------------------------------------------------------------
\* the columns the header lists are drawn from: the indicators of the two
\* adapters, a column of a Mercado Livre report that only starts like an
\* indicator, and a column of neither
DetectColumns ==
  <<"N.º de venda", "Tarifa de venda e impostos", "# de anúncio", "ID do pedido",
    "Nº de referência do SKU principal", "Status do pedido",
    "Tarifa de venda e impostos (BRL)", "SKU">>

\* every selection of the columns in their order, and lists that repeat a column
DetectHeaders ==
  { LET idx == SortInts(SetToSeq(S)) IN [i \in 1..Len(idx) |-> DetectColumns[idx[i]]]
      : S \in SUBSET (1..Len(DetectColumns)) }
  \cup { <<"ID do pedido", "ID do pedido">>, <<"# de anúncio", "SKU", "# de anúncio">>,
         <<"Status do pedido", "N.º de venda", "ID do pedido", "# de anúncio">> }

InitDetect ==
  /\ sales = EmptyBag
  /\ op = "headers"
  /\ args \in DetectHeaders
  /\ ret = <<>>

MercadoLivreDetect ==
  /\ op = "headers"
  /\ op' = "MercadoLivreAdapter.detect"
  /\ ret' = MercadoLivreAdapter_detect(args)
  /\ UNCHANGED <<sales, args>>

ShopeeDetect ==
  /\ op = "headers"
  /\ op' = "ShopeeAdapter.detect"
  /\ ret' = ShopeeAdapter_detect(args)
  /\ UNCHANGED <<sales, args>>

DetectMarketplace ==
  /\ op = "headers"
  /\ op' = "detect_marketplace"
  /\ ret' = detect_marketplace(args)
  /\ UNCHANGED <<sales, args>>

NextDetect == MercadoLivreDetect \/ ShopeeDetect \/ DetectMarketplace

SpecDetect == InitDetect /\ [][NextDetect]_vars

\* the number of the columns named that a header list holds
Present(names, headers) == Cardinality(names \cap Range(headers))

MlIndicatorNames == {"N.º de venda", "Tarifa de venda e impostos", "# de anúncio"}
ShopeeIndicatorNames == {"ID do pedido", "Nº de referência do SKU principal", "Status do pedido"}

\* C24: each adapter's detect(headers) is true if and only if at least two of
\* its indicator headers are present in the header list; detect_marketplace
\* returns the first adapter whose detect is true, 'mercado_livre' before
\* 'shopee' also when both match, and None when none matches
C24_DetectTwoIndicators ==
  LET ml == Present(MlIndicatorNames, args) >= 2
      shopee == Present(ShopeeIndicatorNames, args) >= 2
  IN  /\ op = "MercadoLivreAdapter.detect" => (ret <=> ml)
      /\ op = "ShopeeAdapter.detect" => (ret <=> shopee)
      /\ op = "detect_marketplace" =>
           ret = IF ml THEN Some("mercado_livre")
                 ELSE IF shopee THEN Some("shopee")
                 ELSE None

\* a header list with two indicators of each adapter goes to 'mercado_livre'
C24_Witness ==
  /\ op = "detect_marketplace"
  /\ Present(MlIndicatorNames, args) >= 2
  /\ Present(ShopeeIndicatorNames, args) >= 2
  /\ ret = Some("mercado_livre")

\* ------------------------------------------------------------------------
\* SpecTenant: uploads with and without a company selected, restarts (which
\* give the sales without a company to the first company), and the metrics
\* asked for a company
\* ------------------------------------------------------------------------
TenantFiles ==
  { CsvFile(RfmHeader, << <<d, <<"S","K","U","1">>, <<"W","i","d","g","e","t">>, st, RfmAmount(d), buyer, RfmCusto(d), RfmReceita(d)>> >>)
      : d \in RfmDates, st \in {<<"p","a","g","o">>, <<"c","a","n","c","e","l","a","d","o">>}, buyer \in {<<"a","n","a">>, <<"b","i","a">>} }

TenantForms ==
  { UploadForm(1), UploadForm(2), [marketplace_id |-> FormInt(1), company_id |-> FormInt(2)] }

TenantUploadRuns == UploadRuns({Manager}, TenantForms, TenantFiles)

TenantFilters ==
  { Filter(None, None, None, Some(2)),
    Filter(Some(Date(2025, 1, 1)), Some(Date(2025, 1, 31)), Some(1), Some(2)),
    Filter(Some(Date(2025, 1, 1)), Some(Date(2025, 2, 28)), Some(1), Some(2)) }

\* GET /analytics: company_id is the user's own id, or for a manager the
\* company asked for or the first one; the handler then calls
\* sales_by_state(db.session, start_date, end_date, marketplace_id,
\* company_id, limit=10), whose fifth positional parameter is `limit`, so the
\* call raises TypeError before any analysis is made
analytics_dashboard(current_user, filters) ==
  \E f \in filters :
    /\ op = "idle"
    /\ op' = "analytics_dashboard"
    /\ args' = [current_user |-> current_user,
                filter |-> [f EXCEPT !.company_id =
                              IF is_manager(current_user) THEN f.company_id
                              ELSE Some(current_user.id)]]
    /\ ret' = [raised |-> "TypeError"]
    /\ UNCHANGED sales

NextTenant ==
  \/ Upload(TenantUploadRuns)
  \/ create_app
  \/ GetKpis(TenantFilters)
  \/ SalesTimeseries(TenantFilters)
  \/ StatusBreakdown(TenantFilters)
  \/ AbcByRevenue(TenantFilters, {[k \in {} |-> 0]})
  \/ CalculateRfmAnalysis(TenantFilters, {Date(2025, 3, 1)})
  \/ CohortAnalysis(TenantFilters)
  \/ \E u \in Users : analytics_dashboard(u, TenantFilters)
  \/ Return

SpecTenant == Init /\ [][NextTenant]_vars

\* ------------------------------------------------------------------------
\* Properties of tenant separation
\* ------------------------------------------------------------------------
\* the Sale rows of a company
SalesOf(company_id) ==
  [s \in {x \in BagToSet(sales) : x.company_id = company_id} |-> sales[s]]

\* C25, as stated: every metrics function restricts its input to the given
\* filter: when a date range, a marketplace id and a company id are
\* supplied, its result is the one it gives on the table that holds the
\* sales of that company only, so that records of another company never
\* change it; this holds for the geographic, margin, RFM and cohort functions
\* as well as for KPI, time series, status breakdown and ABC
C25_AsStated ==
  LET f == FilterOf
      own == SalesOf(f.company_id)
  IN  /\ op = "get_kpis" =>
           ret = get_kpis(own, f.start, f.end, f.marketplace_id, f.company_id)
      /\ op = "sales_timeseries" =>
           ret = sales_timeseries(own, f.start, f.end, f.marketplace_id, f.company_id)
      /\ op = "status_breakdown" =>
           ret \in status_breakdown(own, f.start, f.end, f.marketplace_id, f.company_id)
      /\ op = "abc_by_revenue" =>
           ret \in abc_by_revenue(own, f.start, f.end, f.marketplace_id, f.company_id,
                                  args.thresholds)
      /\ op = "calculate_rfm_analysis" =>
           ret \in calculate_rfm_analysis(own, f.start, f.end, f.marketplace_id, args.today)
      /\ op = "cohort_analysis" =>
           ret = cohort_analysis(own, f.start, f.end, f.marketplace_id)
      /\ op = "analytics_dashboard" => ret # [raised |-> "TypeError"]

\* C26, as stated: every Sale persisted by an upload carries the marketplace
\* id and the company id supplied by the caller with the file: marketplace_id
\* is the selected marketplace, and company_id is the selected company
\* whenever one was supplied and None only when none was supplied
C26_AsStated ==
  [][op' = "upload_submit" =>
       \A s \in BagToSet(sales' (-) sales) :
         /\ s.marketplace_id = args'.form.marketplace_id.v
         /\ s.company_id = IF args'.form.company_id.kind = "int"
                           THEN Some(args'.form.company_id.v)
                           ELSE None]_vars

\* ------------------------------------------------------------------------
\* SpecAbcTies: uploads of sales of two SKUs under two valid statuses, so
\* that SKUs reach the same revenue from rows of different totals, and the
\* ABC curve
\* ------------------------------------------------------------------------
TiesFiles ==
  { CsvFile(KpiHeader, << <<<<"2","0","2","5","-","0","1","-","0","5">>, sku, <<"W","i","d","g","e","t">>, st, amount>> >>)
      : sku \in {<<"S","K","U","1">>, <<"S","K","U","2">>}, st \in {<<"p","a","g","o">>, <<"e","n","v","i","a","d","o">>, <<"c","a","n","c","e","l","a","d","o">>},
        amount \in {<<"0",",","0","5">>, <<"0",",","1","0">>} }

TiesUploadRuns == UploadRuns({Manager}, {UploadForm(1)}, TiesFiles)

NextAbcTies ==
  \/ Upload(TiesUploadRuns)
  \/ AbcByRevenue(AbcFilters, {[k \in {} |-> 0]})
  \/ Return

SpecAbcTies == Init /\ [][NextAbcTies]_vars

\* the valid-status records of a SKU among the selected ones
ValidOfSku(f, sku) == BagFilter(ChosenValid(f), LAMBDA s : s.sku = sku)

\* the total of the first row of a SKU that abc_by_revenue meets: the rows
\* come by decreasing total of their (sku, stored status) group, so it is the
\* largest total of the SKU's groups of valid status
FirstRowTotal(f, sku) ==
  LET B == ValidOfSku(f, sku)
      group(st) == BagFilter(B, LAMBDA s : s.status_pedido = st)
      totals == {Amount(group(s.status_pedido)) : s \in BagToSet(B)}
  IN  CHOOSE t \in totals : \A u \in totals : u <= t

\* C27: abc_by_revenue returns exactly one entry per SKU that has at least
\* one valid-status record in the filter, with faturamento the sum of that
\* SKU's valid-status amounts, ordered by non-increasing faturamento; of two
\* SKUs of equal revenue the one met first in the rows comes first: it is
\* never one that every order of the rows meets second
C27_AbcEntries ==
  op = "abc_by_revenue" =>
    LET f == args.filter
        skus == {s.sku : s \in BagToSet(ChosenValid(f))}
    IN  /\ Len(ret) = Cardinality(skus)
        /\ {ret[i].sku : i \in 1..Len(ret)} = skus
        /\ \A i \in 1..Len(ret) : ret[i].faturamento = Amount(ValidOfSku(f, ret[i].sku))
        /\ \A i \in 1..(Len(ret) - 1) : ret[i].faturamento >= ret[i + 1].faturamento
        /\ \A i \in 1..Len(ret) : \A j \in (i + 1)..Len(ret) :
             ret[i].faturamento = ret[j].faturamento =>
               FirstRowTotal(f, ret[i].sku) >= FirstRowTotal(f, ret[j].sku)

\* SKU1 sold 0.05 as 'pago' and 0.05 as 'enviado', SKU2 0.10 in one sale:
\* equal revenue, and SKU2, whose row of 0.10 comes first, is the first entry
C27_Witness ==
  /\ op = "abc_by_revenue"
  /\ Len(ret) = 2
  /\ ret[1].sku = <<"S","K","U","2">> /\ ret[2].sku = <<"S","K","U","1">>
  /\ ret[1].faturamento = 10 /\ ret[2].faturamento = 10
  /\ BagCardinality(ValidOfSku(args.filter, <<"S","K","U","1">>)) = 2

\* ------------------------------------------------------------------------
\* SpecHeader: the header of an uploaded file through map_header, through
\* the header_map loop and through upload_submit
\* ------------------------------------------------------------------------
\* the five required columns and the cells of the one data row
HeaderBase == <<<<"D","a","t","a">>, <<"S","K","U">>, <<"P","r","o","d","u","t","o">>, <<"S","t","a","t","u","s">>, <<"V","a","l","o","r">>>>
HeaderBaseRow == <<<<"2","0","2","5","-","0","1","-","0","5">>, <<"S","K","U","1">>, <<"W","i","d","g","e","t">>, <<"p","a","g","o">>, <<"1","0",",","5","0">>>>

\* a column added to the file: a header no alias knows, aliases of two
\* canonical fields, other aliases of fields the file has, and headers the
\* file already has, each with its cell
HeaderExtras ==
  { <<<<"f","o","o">>, <<"x">>>>, <<<<"T","o","t","a","l">>, <<"2","0",",","0","0">>>>, <<<<"V","a","l","o","r"," ","T","o","t","a","l">>, <<"2","0",",","0","0">>>>,
    <<<<"T","í","t","u","l","o"," ","P","r","o","d","u","t","o">>, <<"G","a","d","g","e","t">>>>, <<<<"P","r","e","ç","o">>, <<"2","0",",","0","0">>>>, <<<<"I","t","e","m">>, <<"G","a","d","g","e","t">>>>,
    <<<<"V","a","l","o","r">>, <<"2","0",",","0","0">>>>, <<<<"P","r","o","d","u","t","o">>, <<"G","a","d","g","e","t">>>>, <<<<"V","A","L","O","R">>, <<"2","0",",","0","0">>>> }

\* a sequence with x put before its k-th element
InsertAt(s, k, x) == SubSeq(s, 1, k - 1) \o <<x>> \o SubSeq(s, k, Len(s))

\* the file of the required columns, the files with one more column at each
\* place, and the files whose amount or product column is the added one
HeaderFiles ==
  {CsvFile(HeaderBase, <<HeaderBaseRow>>)}
  \cup { CsvFile(InsertAt(HeaderBase, k, e[1]), <<InsertAt(HeaderBaseRow, k, e[2])>>)
           : k \in 1..(Len(HeaderBase) + 1), e \in HeaderExtras }
  \cup { CsvFile([HeaderBase EXCEPT ![5] = e[1]], <<HeaderBaseRow>>)
           : e \in {x \in HeaderExtras : x[2] = <<"2","0",",","0","0">>} }
  \cup { CsvFile([HeaderBase EXCEPT ![3] = e[1]], <<HeaderBaseRow>>)
           : e \in {x \in HeaderExtras : x[2] # <<"2","0",",","0","0">>} }

\* what the three give for each file
HeaderRuns ==
  { [file |-> f,
     mapped |-> [i \in 1..Len(f.fieldnames) |-> map_header(normalize_header(f.fieldnames[i]))],
     header_map |-> BuildHeaderMap(f.fieldnames, EmptyMap),
     r |-> upload_submit(Manager, UploadForm(1), Some(f))] : f \in HeaderFiles }

InitHeader ==
  /\ sales = EmptyBag
  /\ op = "file"
  /\ args \in HeaderFiles
  /\ ret = <<>>

\* internal_name of each header of reader.fieldnames
MapHeader ==
  \E run \in HeaderRuns :
    /\ op = "file" /\ args = run.file
    /\ op' = "map_header"
    /\ ret' = run.mapped
    /\ UNCHANGED <<sales, args>>

\* header_map after the loop over reader.fieldnames
HeaderMap ==
  \E run \in HeaderRuns :
    /\ op = "file" /\ args = run.file
    /\ op' = "header_map"
    /\ ret' = run.header_map
    /\ UNCHANGED <<sales, args>>

\* POST /upload of the file by a manager
UploadHeaderFile ==
  \E run \in HeaderRuns :
    /\ op = "file" /\ args = run.file
    /\ op' = "upload_submit"
    /\ sales' = sales (+) SeqToBag(run.r.sales_to_insert)
    /\ ret' = [k \in DOMAIN run.r \ {"sales_to_insert"} |-> run.r[k]]
    /\ UNCHANGED args

NextHeader == MapHeader \/ HeaderMap \/ UploadHeaderFile

SpecHeader == InitHeader /\ [][NextHeader]_vars

\* the entries of HEADER_SYNONYMS that know a normalized header
Knowing(header) ==
  {i \in 1..Len(HEADER_SYNONYMS) :
     header = HEADER_SYNONYMS[i].internal \/ header \in HEADER_SYNONYMS[i].synonyms}

\* the columns of a header whose normalized text an entry for the field knows
ColumnsOf(fieldnames, field) ==
  {i \in 1..Len(fieldnames) :
     \E k \in Knowing(normalize_header(fieldnames[i])) :
       /\ HEADER_SYNONYMS[k].internal = field
       /\ \A j \in Knowing(normalize_header(fieldnames[i])) : k <= j}

LeftMost(cols) == CHOOSE i \in cols : \A j \in cols : i <= j

\* C28: header mapping in the upload path: a normalized header that matches
\* no alias is dropped without error, one that matches aliases of several
\* canonical fields is mapped to the first of them in HEADER_SYNONYMS order,
\* header_map holds one source per field, the left-most column that maps to
\* it, and that column is the one whose cells are used
C28_AsStated ==
  LET fieldnames == args.fieldnames
      fields == {HEADER_SYNONYMS[k].internal : k \in 1..Len(HEADER_SYNONYMS)}
      mappedFields == {f \in fields : ColumnsOf(fieldnames, f) # {}}
      cell(f) == args.rows[1][LeftMost(ColumnsOf(fieldnames, f))]
  IN  /\ op = "map_header" =>
           \A i \in 1..Len(fieldnames) :
             LET known == Knowing(normalize_header(fieldnames[i]))
             IN  IF known = {} THEN ret[i] = None
                 ELSE ret[i] = Some(HEADER_SYNONYMS[LeftMost(known)].internal)
      /\ op = "header_map" =>
           /\ DOMAIN ret = mappedFields
           /\ \A f \in mappedFields : ret[f] = fieldnames[LeftMost(ColumnsOf(fieldnames, f))]
      /\ op = "upload_submit" =>
           /\ ret.outcome \in {"summary", "missing_columns"}
           /\ ret.outcome = "summary" <=> REQUIRED_COLUMNS \subseteq mappedFields
           /\ ret.outcome = "summary" => ret.errors = <<>> /\ BagCardinality(sales) = 1
           /\ \A s \in BagToSet(sales) :
                /\ s.nome_produto = StrStrip(cell(F_nome_produto))
                /\ s.sku = StrStrip(cell(F_sku))
                /\ s.valor_total_venda = ToCents(parse_decimal_ptbr_en(cell(F_valor_total_venda)))

\* ------------------------------------------------------------------------
\* SpecRows: the row loops of upload_submit and of the parse_file of the two
\* adapters, one iteration at a time; ret holds the loop's variables
\* ------------------------------------------------------------------------
\* the complete files of up to three rows
RowsFiles ==
  { CsvFile(IngestHeader, rows)
      : rows \in RowsUpToTwo(IngestRowKinds)
                   \cup {<<a, b, c>> : a \in IngestRowKinds, b \in IngestRowKinds, c \in IngestRowKinds} }

\* one iteration of the loop of upload_submit that skips a refused row
\* without an error message
UploadRowSilent(file, acc) ==
  LET r == ProcessRow(Manager, 1, LineData(file.fieldnames,
                        BuildHeaderMap(file.fieldnames, EmptyMap), file.rows[acc.total_rows + 1]))
  IN  [total_rows |-> acc.total_rows + 1,
       sales_to_insert |-> IF r.ok THEN Append(acc.sales_to_insert, r.sale)
                           ELSE acc.sales_to_insert,
       errors |-> acc.errors]

\* one iteration of the loop of upload_submit, on the row after the
\* total_rows already read
UploadRow(file, acc) ==
  ProcessRows(Manager, 1, file.fieldnames, BuildHeaderMap(file.fieldnames, EmptyMap),
              <<file.rows[acc.total_rows + 1]>>, acc)

\* the loop's variables before the first row and after each row
RECURSIVE UploadAccs(_, _)
UploadAccs(file, acc) ==
  IF acc.total_rows >= Len(file.rows) THEN <<acc>>
  ELSE <<acc>> \o UploadAccs(file, UploadRow(file, acc))

\* the files that reach the loop, each with the loop's variables row by row
UploadRowsRuns ==
  { [file |-> file,
     accs |-> UploadAccs(file, [total_rows |-> 0, sales_to_insert |-> <<>>, errors |-> <<>>])]
      : file \in {f \in RowsFiles :
                    upload_submit(Manager, UploadForm(1), Some(f)).outcome = "summary"} }

\* upload_submit by a manager up to the loop over the rows
UploadStart ==
  \E run \in UploadRowsRuns :
    /\ op = "idle"
    /\ BagCardinality(sales) + Len(run.file.rows) <= MaxSales
    /\ op' = "upload_submit.rows"
    /\ args' = [file |-> run.file]
    /\ ret' = run.accs[1]
    /\ UNCHANGED sales

UploadNextRow ==
  \E run \in UploadRowsRuns :
    /\ op = "upload_submit.rows"
    /\ args.file = run.file
    /\ ret.total_rows < Len(args.file.rows)
    /\ ret' = run.accs[ret.total_rows + 2]
    /\ UNCHANGED <<sales, op, args>>

\* upload_submit after the loop: the counts, the commit and the summary
UploadFinish ==
  /\ op = "upload_submit.rows"
  /\ ret.total_rows = Len(args.file.rows)
  /\ LET imported_count == Len(ret.sales_to_insert)
     IN  /\ sales' = sales (+) SeqToBag(ret.sales_to_insert)
         /\ ret' = [outcome |-> "summary",
                    total_rows |-> ret.total_rows,
                    imported_count |-> imported_count,
                    ignored_count |-> ret.total_rows - imported_count,
                    category |-> IF imported_count # 0 /\ ret.errors = <<>>
                                 THEN "success" ELSE "warning",
                    errors |-> ret.errors,
                    sales_to_insert |-> ret.sales_to_insert]
  /\ op' = "upload_submit"
  /\ UNCHANGED args

\* one iteration of the loop of MercadoLivreAdapter.parse_file
MercadoLivreRow(file, st) ==
  LET acc == MercadoLivreAdapter_rows(file, <<file.rows[st.line_num - 1]>>, st.line_num,
               [parsed_data |-> st.parsed_data, errors |-> st.errors])
  IN  [line_num |-> st.line_num + 1, parsed_data |-> acc.parsed_data, errors |-> acc.errors]

\* one iteration of the loop of ShopeeAdapter.parse_file
ShopeeRow(file, st) ==
  LET acc == ShopeeAdapter_rows(file, <<file.rows[st.line_num - 1]>>, st.line_num,
               [parsed_data |-> st.parsed_data, errors |-> st.errors])
  IN  [line_num |-> st.line_num + 1, parsed_data |-> acc.parsed_data, errors |-> acc.errors]

RECURSIVE AdapterAccs(_, _, _)
AdapterAccs(adapter, file, st) ==
  IF st.line_num - 1 > Len(file.rows) THEN <<st>>
  ELSE <<st>> \o AdapterAccs(adapter, file,
                   IF adapter = "MercadoLivreAdapter" THEN MercadoLivreRow(file, st)
                   ELSE ShopeeRow(file, st))

\* the reports and worksheets, each with the loop's variables row by row
AdapterRowsRuns ==
  { [adapter |-> "MercadoLivreAdapter", file |-> file,
     accs |-> AdapterAccs("MercadoLivreAdapter", file,
                          [line_num |-> 2, parsed_data |-> <<>>, errors |-> <<>>])]
      : file \in MlFiles }
  \cup
  { [adapter |-> "ShopeeAdapter", file |-> file,
     accs |-> AdapterAccs("ShopeeAdapter", file,
                          [line_num |-> 2, parsed_data |-> <<>>, errors |-> <<>>])]
      : file \in ShopeeFiles }

\* MercadoLivreAdapter.parse_file: the reader is made, then one row at a time
MercadoLivreStart ==
  \E run \in AdapterRowsRuns :
    /\ op = "idle"
    /\ run.adapter = "MercadoLivreAdapter"
    /\ op' = "MercadoLivreAdapter.parse_file.rows"
    /\ args' = [file |-> run.file]
    /\ ret' = run.accs[1]
    /\ UNCHANGED sales

MercadoLivreNextRow ==
  \E run \in AdapterRowsRuns :
    /\ op = "MercadoLivreAdapter.parse_file.rows"
    /\ run.adapter = "MercadoLivreAdapter" /\ args.file = run.file
    /\ ret.line_num - 1 <= Len(args.file.rows)
    /\ ret' = run.accs[ret.line_num]
    /\ UNCHANGED <<sales, op, args>>

\* ShopeeAdapter.parse_file: the headers are read, then one row at a time
ShopeeStart ==
  \E run \in AdapterRowsRuns :
    /\ op = "idle"
    /\ run.adapter = "ShopeeAdapter"
    /\ op' = "ShopeeAdapter.parse_file.rows"
    /\ args' = [file |-> run.file]
    /\ ret' = run.accs[1]
    /\ UNCHANGED sales

ShopeeNextRow ==
  \E run \in AdapterRowsRuns :
    /\ op = "ShopeeAdapter.parse_file.rows"
    /\ run.adapter = "ShopeeAdapter" /\ args.file = run.file
    /\ ret.line_num - 1 <= Len(args.file.rows)
    /\ ret' = run.accs[ret.line_num]
    /\ UNCHANGED <<sales, op, args>>

\* return parsed_data, errors
ParseFileFinish ==
  /\ op \in {"MercadoLivreAdapter.parse_file.rows", "ShopeeAdapter.parse_file.rows"}
  /\ ret.line_num - 1 > Len(args.file.rows)
  /\ op' = IF op = "MercadoLivreAdapter.parse_file.rows"
           THEN "MercadoLivreAdapter.parse_file" ELSE "ShopeeAdapter.parse_file"
  /\ ret' = [parsed_data |-> ret.parsed_data, errors |-> ret.errors]
  /\ UNCHANGED <<sales, args>>

\* the response has been sent, the loop being over
ReturnAfterRows ==
  /\ op \in {"upload_submit", "MercadoLivreAdapter.parse_file", "ShopeeAdapter.parse_file"}
  /\ Return

NextRows ==
  \/ UploadStart \/ UploadNextRow \/ UploadFinish
  \/ MercadoLivreStart \/ MercadoLivreNextRow
  \/ ShopeeStart \/ ShopeeNextRow
  \/ ParseFileFinish
  \/ ReturnAfterRows

SpecRows == Init /\ [][NextRows]_vars

\* the rows read so far, the first row being line 2, of which those without
\* an error message, in file order
LinesWithoutError(n, errors) ==
  SortInts(SetToSeq({l \in 2..(n + 1) : \A i \in 1..Len(errors) : errors[i].line # l}))

\* n rows read gave one record or one error message each, the error lines
\* in increasing order
RowsAccounted(n, records, errors) ==
  /\ Len(records) + Len(errors) = n
  /\ \A i \in 1..Len(errors) : errors[i].line \in 2..(n + 1)
  /\ \A i \in 1..(Len(errors) - 1) : errors[i].line < errors[i + 1].line

\* C29: in the loops of upload_submit and of both parse_file, after every
\* prefix of n rows and at the end, len(records) + len(errors) = n, every
\* row having given exactly one record or one error message, and the
\* records are in file order: the i-th record is that of the i-th row
\* without an error message; upload_submit reports imported_count +
\* len(errors) = total_rows, the number of data rows, and ignored_count =
\* len(errors)
C29_RowAccounting ==
  LET file == args.file
  IN  /\ op = "upload_submit.rows" =>
           LET good == LinesWithoutError(ret.total_rows, ret.errors)
               header_map == BuildHeaderMap(file.fieldnames, EmptyMap)
           IN  /\ ret.total_rows <= Len(file.rows)
               /\ RowsAccounted(ret.total_rows, ret.sales_to_insert, ret.errors)
               /\ \A i \in 1..Len(ret.sales_to_insert) :
                    LET r == ProcessRow(Manager, 1,
                               LineData(file.fieldnames, header_map, file.rows[good[i] - 1]))
                    IN  r.ok /\ ret.sales_to_insert[i] = r.sale
      /\ op = "upload_submit" =>
           /\ ret.total_rows = Len(file.rows)
           /\ ret.imported_count + Len(ret.errors) = ret.total_rows
           /\ ret.ignored_count = Len(ret.errors)
           /\ ret.imported_count = Len(ret.sales_to_insert)
           /\ RowsAccounted(ret.total_rows, ret.sales_to_insert, ret.errors)
      /\ op \in {"MercadoLivreAdapter.parse_file.rows", "ShopeeAdapter.parse_file.rows"} =>
           LET n == ret.line_num - 2
               good == LinesWithoutError(n, ret.errors)
           IN  /\ n <= Len(file.rows)
               /\ RowsAccounted(n, ret.parsed_data, ret.errors)
               /\ \A i \in 1..Len(ret.parsed_data) :
                    IF op = "MercadoLivreAdapter.parse_file.rows"
                    THEN LET r == MercadoLivreAdapter_process_row(file, file.rows[good[i] - 1])
                         IN  r.ok /\ ret.parsed_data[i] = r.normalized
                    ELSE LET r == ShopeeAdapter_process_row(file, file.rows[good[i] - 1])
                         IN  r.kind = "record" /\ ret.parsed_data[i] = r.normalized
      /\ op \in {"MercadoLivreAdapter.parse_file", "ShopeeAdapter.parse_file"} =>
           RowsAccounted(Len(file.rows), ret.parsed_data, ret.errors)

\* two of three rows read by upload_submit: the first refused, the second
\* a Sale
C29_Witness ==
  /\ op = "upload_submit.rows"
  /\ Len(args.file.rows) = 3
  /\ ret.total_rows = 2
  /\ Len(ret.sales_to_insert) = 1
  /\ Len(ret.errors) = 1 /\ ret.errors[1].line = 2

\* C30: calculate_rfm_analysis never gives a buyer the segment 'Cannot Lose
\* Them', whatever its r_score and f_score in 1..4: a buyer with r_score <= 2
\* and f_score >= 4 is 'At Risk', the earlier rule; and a buyer is 'Lost'
\* exactly when its r_score is 1 and its f_score is at most 2
C30_CannotLoseThemShadowed ==
  op = "scored" =>
    \A i \in 1..Len(ret) :
      /\ ret[i].r_score \in 1..4 /\ ret[i].f_score \in 1..4
      /\ ret[i].segment # "Cannot Lose Them"
      /\ (ret[i].r_score <= 2 /\ ret[i].f_score >= 4) => ret[i].segment = "At Risk"
      /\ ret[i].segment = "Lost" <=> (ret[i].r_score = 1 /\ ret[i].f_score <= 2)

\* a population with a buyer whose r_score is at most 2 and whose f_score is
\* 4, the case of the 'Cannot Lose Them' rule, who is 'At Risk', and with a
\* 'Lost' buyer
C30_Witness ==
  /\ op = "scored"
  /\ \E i \in 1..Len(ret) :
       ret[i].r_score <= 2 /\ ret[i].f_score = 4 /\ ret[i].segment = "At Risk"
  /\ \E i \in 1..Len(ret) :
       ret[i].r_score = 1 /\ ret[i].f_score <= 2 /\ ret[i].segment = "Lost"
====
